---- MODULE Spec2Model ----
(***************************************************************************)
(* Model of the HSKK scoring pipeline: the /api/v1/score/full handler      *)
(* (full_score_audio), score_with_criteria, unified_ai_scoring, the        *)
(* multi-model STT fan-out, the unified Praat run, and the Praat scorers.  *)
(*                                                                         *)
(* Units.  Scores and max scores are integers in hundredths of a point     *)
(* (0.5 -> 50).  Deductions and multipliers are percentages (0.15 -> 15).  *)
(* hnr_mean is in dB, jitter_local in 1/1000, shimmer_local and            *)
(* pause_ratio in 1/100, mean_pause_duration in 1/10 s, duration in s.     *)
(***************************************************************************)
EXTENDS Integers, Sequences, FiniteSets, TLC

VARIABLES
    settings,                  \* Settings: [openai_api_key |-> BOOLEAN]
    PRONUNCIATION_MAX_SCORES,  \* module-level table: level -> (task -> max)
    FLUENCY_MAX_SCORES,        \* module-level table: level -> (task -> max)
    registry,                  \* TASK_CONFIGS
    pc,                        \* position of the handler
    req,                       \* the request's parameters
    tasks,                     \* the coroutines gathered in step 1
    stt,                       \* MultiModelSTTResult (kinds of the texts)
    features,                  \* raw_result of the Praat extraction
    word_result,               \* result of analyze_words
    praat_scores,              \* pre-scores of the Praat criteria
    scores,                    \* dict of ScoreDetail built so far
    calls,                     \* judge / word-feedback calls in flight
    judge_result,              \* what the judge returned
    tempFiles,                 \* temp files of this request that exist
    resp,                      \* what the handler returned
    orphans,                   \* coroutines still running after the gather raised
    sent,                      \* the texts score_with_criteria was called with
    praat_output               \* the lines of the Praat output file

vars == <<settings, PRONUNCIATION_MAX_SCORES, FLUENCY_MAX_SCORES, registry,
          pc, req, tasks, stt, features, word_result, praat_scores, scores,
          calls, judge_result, tempFiles, resp, orphans, sent,
          praat_output>>

\* What TASK_CONFIGS.get returns for a code that is not registered
None == [task_code |-> "None"]

\* ------------------------------------------------------------------------
\* constants/scoring.py
\* ------------------------------------------------------------------------
HNR_EXCELLENT == 20
HNR_GOOD == 15
HNR_POOR == 10
JITTER_EXCELLENT == 10
JITTER_ACCEPTABLE == 15
JITTER_POOR == 20
SHIMMER_EXCELLENT == 5
SHIMMER_ACCEPTABLE == 8
SHIMMER_POOR == 12
SPEECH_RATE_SLOW == 100
SPEECH_RATE_IDEAL_MIN == 150
SPEECH_RATE_IDEAL_MAX == 220
SPEECH_RATE_FAST == 280
PAUSE_RATIO_ACCEPTABLE == 25
MEAN_PAUSE_ACCEPTABLE == 6
HESITATION_PAUSE_THRESHOLD == 5
NUM_PAUSES_THRESHOLD == 10
FLUENCY_NORMALIZE_DURATION == 30
SPEED_STABILITY_THRESHOLD == 50
DEDUCTION_MINOR == 15
DEDUCTION_MODERATE == 25
DEDUCTION_MAJOR == 35
DEDUCTION_SEVERE == 50
SCORE_MULTIPLIER_EXCELLENT == 100
SCORE_MULTIPLIER_GOOD == 75
SCORE_MULTIPLIER_ACCEPTABLE == 50
SCORE_MULTIPLIER_POOR == 25

\* The default of max_scores.get(level, {}).get(task, 1.0)
DEFAULT_MAX_SCORE == 100

InitPronunciationMaxScores ==
    [l \in {"beginner", "intermediate", "advanced"} |->
        CASE l = "beginner" ->
               [t \in {"task1", "task2", "task3", "task"} |->
                  CASE t = "task1" -> 50 [] t = "task2" -> 50
                    [] t = "task3" -> 400 [] OTHER -> 1000]
          [] l = "intermediate" ->
               [t \in {"task1", "task2", "task3", "task"} |->
                  CASE t = "task1" -> 100 [] t = "task2" -> 300
                    [] t = "task3" -> 400 [] OTHER -> 1000]
          [] OTHER ->
               [t \in {"task1", "task2", "task3", "task"} |->
                  CASE t = "task1" -> 200 [] t = "task2" -> 500
                    [] t = "task3" -> 500 [] OTHER -> 1000]]

InitFluencyMaxScores ==
    [l \in {"beginner", "intermediate", "advanced"} |->
        CASE l = "beginner" ->
               [t \in {"task1", "task2", "task3", "task"} |->
                  CASE t = "task1" -> 50 [] t = "task2" -> 50
                    [] t = "task3" -> 200 [] OTHER -> 1000]
          [] l = "intermediate" ->
               [t \in {"task1", "task2", "task3", "task"} |->
                  CASE t = "task1" -> 50 [] t = "task2" -> 200
                    [] t = "task3" -> 200 [] OTHER -> 1000]
          [] OTHER ->
               [t \in {"task1", "task2", "task3", "task"} |->
                  CASE t = "task1" -> 200 [] t = "task2" -> 500
                    [] t = "task3" -> 300 [] OTHER -> 1000]]

\* ------------------------------------------------------------------------
\* scorers/task_criteria_config.py
\* ------------------------------------------------------------------------
CriteriaType == {"task_achievement", "pronunciation", "fluency",
                 "grammar", "vocabulary", "coherence"}
DataSource == {"praat", "ai"}

CriteriaConfig(type, source, max_score) ==
    [type |-> type, source |-> source, max_score |-> max_score]

\* points_per_question and total_points in hundredths of a point
TaskConfig(task_code, exam_level, level_name, question_count, points_per_question, total_points, criteria) ==
    [task_code |-> task_code, exam_level |-> exam_level,
     level_name |-> level_name, question_count |-> question_count,
     points_per_question |-> points_per_question,
     total_points |-> total_points, criteria |-> criteria]

\* sum(c.max_score for c in task_config.criteria)
RECURSIVE SumMaxScores(_)
SumMaxScores(criteria) ==
    IF criteria = << >> THEN 0
    ELSE Head(criteria).max_score + SumMaxScores(Tail(criteria))

\* Variant: a plan for HSKKSC1 whose criteria add up to 2.5 points for a
\* question of 2.
HSKKSC1_UNBALANCED == TaskConfig("HSKKSC1", "101", "beginner", 15, 200, 3000,
    << CriteriaConfig("task_achievement", "ai", 100),
       CriteriaConfig("pronunciation", "praat", 50),
       CriteriaConfig("fluency", "praat", 100) >>)

HSKKSC1_CONFIG == TaskConfig("HSKKSC1", "101", "beginner", 15, 200, 3000,
    << CriteriaConfig("task_achievement", "ai", 100),
       CriteriaConfig("pronunciation", "praat", 50),
       CriteriaConfig("fluency", "praat", 50) >>)

HSKKSC2_CONFIG == TaskConfig("HSKKSC2", "101", "beginner", 10, 300, 3000,
    << CriteriaConfig("task_achievement", "ai", 150),
       CriteriaConfig("grammar", "ai", 50),
       CriteriaConfig("pronunciation", "praat", 50),
       CriteriaConfig("fluency", "praat", 50) >>)

HSKKSC3_CONFIG == TaskConfig("HSKKSC3", "101", "beginner", 2, 2000, 4000,
    << CriteriaConfig("task_achievement", "ai", 600),
       CriteriaConfig("pronunciation", "praat", 400),
       CriteriaConfig("grammar", "ai", 400),
       CriteriaConfig("vocabulary", "ai", 200),
       CriteriaConfig("coherence", "ai", 200),
       CriteriaConfig("fluency", "praat", 200) >>)

HSKKTC1_CONFIG == TaskConfig("HSKKTC1", "102", "intermediate", 10, 300, 3000,
    << CriteriaConfig("task_achievement", "ai", 150),
       CriteriaConfig("pronunciation", "praat", 100),
       CriteriaConfig("fluency", "praat", 50) >>)

HSKKTC2_CONFIG == TaskConfig("HSKKTC2", "102", "intermediate", 2, 1500, 3000,
    << CriteriaConfig("task_achievement", "ai", 500),
       CriteriaConfig("pronunciation", "praat", 300),
       CriteriaConfig("grammar", "ai", 300),
       CriteriaConfig("vocabulary", "ai", 100),
       CriteriaConfig("coherence", "ai", 100),
       CriteriaConfig("fluency", "praat", 200) >>)

HSKKTC3_CONFIG == TaskConfig("HSKKTC3", "102", "intermediate", 2, 2000, 4000,
    << CriteriaConfig("task_achievement", "ai", 600),
       CriteriaConfig("pronunciation", "praat", 400),
       CriteriaConfig("grammar", "ai", 400),
       CriteriaConfig("vocabulary", "ai", 200),
       CriteriaConfig("coherence", "ai", 200),
       CriteriaConfig("fluency", "praat", 200) >>)

HSKKCC1_CONFIG == TaskConfig("HSKKCC1", "103", "advanced", 3, 1000, 3000,
    << CriteriaConfig("task_achievement", "ai", 400),
       CriteriaConfig("pronunciation", "praat", 200),
       CriteriaConfig("grammar", "ai", 200),
       CriteriaConfig("fluency", "praat", 200) >>)

HSKKCC2_CONFIG == TaskConfig("HSKKCC2", "103", "advanced", 1, 2000, 2000,
    << CriteriaConfig("task_achievement", "ai", 1000),
       CriteriaConfig("pronunciation", "praat", 500),
       CriteriaConfig("fluency", "praat", 500) >>)

HSKKCC3_CONFIG == TaskConfig("HSKKCC3", "103", "advanced", 2, 2500, 5000,
    << CriteriaConfig("task_achievement", "ai", 800),
       CriteriaConfig("pronunciation", "praat", 500),
       CriteriaConfig("grammar", "ai", 400),
       CriteriaConfig("vocabulary", "ai", 200),
       CriteriaConfig("coherence", "ai", 300),
       CriteriaConfig("fluency", "praat", 300) >>)

TaskCode == {"HSKKSC1", "HSKKSC2", "HSKKSC3", "HSKKTC1", "HSKKTC2",
             "HSKKTC3", "HSKKCC1", "HSKKCC2", "HSKKCC3"}

TASK_CONFIGS ==
    [c \in TaskCode |->
        CASE c = "HSKKSC1" -> HSKKSC1_CONFIG
          [] c = "HSKKSC2" -> HSKKSC2_CONFIG
          [] c = "HSKKSC3" -> HSKKSC3_CONFIG
          [] c = "HSKKTC1" -> HSKKTC1_CONFIG
          [] c = "HSKKTC2" -> HSKKTC2_CONFIG
          [] c = "HSKKTC3" -> HSKKTC3_CONFIG
          [] c = "HSKKCC1" -> HSKKCC1_CONFIG
          [] c = "HSKKCC2" -> HSKKCC2_CONFIG
          [] OTHER -> HSKKCC3_CONFIG]

\* Variant: an unknown code falls back to the first registered plan.
get_task_config_or_default(reg, task_code) ==
    IF task_code \in DOMAIN reg THEN reg[task_code] ELSE reg["HSKKSC1"]

\* TASK_CONFIGS.get(task_code)
get_task_config(reg, task_code) ==
    IF task_code \in DOMAIN reg THEN reg[task_code] ELSE None

has_ai_criteria(cfg) ==
    \E i \in 1..Len(cfg.criteria) : cfg.criteria[i].source = "ai"

has_praat_criteria(cfg) ==
    \E i \in 1..Len(cfg.criteria) : cfg.criteria[i].source = "praat"

\* ------------------------------------------------------------------------
\* scorers/base_scorer.py, scorers/praat_scorers/*.py
\* ------------------------------------------------------------------------
\* The feature vectors a request's audio can produce (AudioFeatures fields
\* the scorers read).  FV_CLEAR is inside every excellent band, FV_MIXED has
\* one deduction per measure, FV_NOISY is in the worst band of every measure
\* (hnr 0, jitter at its maximum 0.1, duration 0).
FV_CLEAR == [hnr_mean |-> 22, jitter_local |-> 8, shimmer_local |-> 4,
             speech_rate |-> 180, pause_ratio |-> 10, num_pauses |-> 3,
             mean_pause_duration |-> 2, articulation_rate |-> 200,
             duration |-> 30]
FV_MIXED == [hnr_mean |-> 17, jitter_local |-> 18, shimmer_local |-> 6,
             speech_rate |-> 90, pause_ratio |-> 40, num_pauses |-> 4,
             mean_pause_duration |-> 7, articulation_rate |-> 120,
             duration |-> 20]
FV_NOISY == [hnr_mean |-> 0, jitter_local |-> 100, shimmer_local |-> 95,
             speech_rate |-> 300, pause_ratio |-> 100, num_pauses |-> 40,
             mean_pause_duration |-> 1, articulation_rate |-> 0,
             duration |-> 0]
FeatureVectors == {FV_CLEAR, FV_MIXED, FV_NOISY}

Abs(x) == IF x < 0 THEN -x ELSE x
Max2(a, b) == IF a >= b THEN a ELSE b
Min2(a, b) == IF a <= b THEN a ELSE b
Take(s, n) == SubSeq(s, 1, Min2(n, Len(s)))

\* self.max_scores.get(self.exam_level, {}).get(task, 1.0)
LookupMaxScore(max_scores, exam_level, task) ==
    IF exam_level \in DOMAIN max_scores
       /\ task \in DOMAIN max_scores[exam_level]
    THEN max_scores[exam_level][task]
    ELSE DEFAULT_MAX_SCORE

\* Variant: the digits after the second decimal are cut off.
RoundDown(raw) == raw \div 100

\* round(x, 2) of the exact decimal x = raw / 10000: round half to even.
RoundHalfEven(raw) ==
    LET q == raw \div 100
        r == raw % 100
    IN  IF r > 50 \/ (r = 50 /\ q % 2 = 1) THEN q + 1 ELSE q

\* max_score * (1 - deductions) is a binary double.  Where the exact decimal
\* is a tie (..5 thousandths) the double lies just above or just below it
\* and round(score, 2) follows the double.  These are the deduction triples
\* (hnr, jitter, shimmer) whose double lies above the tie for max_score 0.5,
\* the only max score of the tables and the registry that produces ties.
FloatAboveTie ==
    { <<0, 0, 25>>, <<0, 0, 35>>, <<0, 25, 0>>, <<0, 35, 0>>,
      <<15, 15, 15>>, <<15, 15, 35>>, <<15, 35, 35>>, <<30, 0, 15>>,
      <<30, 0, 35>>, <<30, 15, 0>>, <<30, 35, 0>>, <<50, 0, 35>>,
      <<50, 35, 0>> }

\* The one (max_score, deductions) pair of the registry for which the double
\* (score / max_score) * 100 falls below the exact percentage: 3.0 * 0.7.
FloatBelowPct == { <<300, 30>> }

\* BaseScorer._determine_level on the unrounded score raw / 10000
determine_level(raw, max_score, below) ==
    IF max_score = 0 THEN "poor"
    ELSE LET lhs == IF below THEN raw - 1 ELSE raw
         IN  IF lhs >= 90 * max_score THEN "excellent"
             ELSE IF lhs >= 70 * max_score THEN "good"
             ELSE IF lhs >= 50 * max_score THEN "acceptable"
             ELSE "poor"

HnrBand(hnr) ==
    IF hnr >= HNR_EXCELLENT THEN [d |-> 0, issues |-> << >>]
    ELSE IF hnr >= HNR_GOOD THEN [d |-> DEDUCTION_MINOR, issues |-> << >>]
    ELSE IF hnr >= HNR_POOR
         THEN [d |-> DEDUCTION_MODERATE + 5, issues |-> <<"ISSUE_LOW_HNR">>]
    ELSE [d |-> DEDUCTION_SEVERE, issues |-> <<"ISSUE_NOISY_VOICE">>]

\* Variant: no jitter band appends an issue.
JitterBandNoIssue(jitter) ==
    IF jitter <= JITTER_EXCELLENT THEN [d |-> 0, issues |-> << >>]
    ELSE IF jitter <= JITTER_ACCEPTABLE
         THEN [d |-> DEDUCTION_MINOR, issues |-> << >>]
    ELSE IF jitter <= JITTER_POOR
         THEN [d |-> DEDUCTION_MODERATE, issues |-> << >>]
    ELSE [d |-> DEDUCTION_MAJOR, issues |-> << >>]

JitterBand(jitter) ==
    IF jitter <= JITTER_EXCELLENT THEN [d |-> 0, issues |-> << >>]
    ELSE IF jitter <= JITTER_ACCEPTABLE
         THEN [d |-> DEDUCTION_MINOR, issues |-> << >>]
    ELSE IF jitter <= JITTER_POOR
         THEN [d |-> DEDUCTION_MODERATE, issues |-> <<"ISSUE_HIGH_JITTER">>]
    ELSE [d |-> DEDUCTION_MAJOR,
          issues |-> <<"ISSUE_UNSTABLE_VOICE_SEVERE">>]

ShimmerBand(shimmer) ==
    IF shimmer <= SHIMMER_EXCELLENT THEN [d |-> 0, issues |-> << >>]
    ELSE IF shimmer <= SHIMMER_ACCEPTABLE
         THEN [d |-> DEDUCTION_MINOR, issues |-> << >>]
    ELSE IF shimmer <= SHIMMER_POOR
         THEN [d |-> DEDUCTION_MODERATE, issues |-> <<"ISSUE_HIGH_SHIMMER">>]
    ELSE [d |-> DEDUCTION_MAJOR, issues |-> <<"ISSUE_HIGH_SHIMMER_SEVERE">>]

PronunciationFeedback(level, issues) ==
    CASE level = "excellent" -> <<"FEEDBACK_PRONUNCIATION_EXCELLENT">>
      [] level = "good" -> <<"FEEDBACK_PRONUNCIATION_GOOD">>
      [] level = "acceptable" ->
            <<"FEEDBACK_PRONUNCIATION_ACCEPTABLE_PREFIX">> \o
            (IF issues # << >> THEN Take(issues, 2)
             ELSE <<"FEEDBACK_PRONUNCIATION_ACCEPTABLE_DEFAULT">>)
      [] OTHER ->
            <<"FEEDBACK_PRONUNCIATION_POOR_PREFIX">> \o
            (IF issues # << >>
             THEN <<"FEEDBACK_PRONUNCIATION_POOR_SUFFIX">> \o issues
             ELSE << >>)

\* Variant: the score is not clamped at 0.
UnclampedScore(raw) == raw

\* The clamp of PronunciationScorer.score: max(0, max_score * (1 - d))
ClampScore(raw) == Max2(0, raw)

\* PronunciationScorer(exam_level).score(data, task), with self.max_scores
\* the module-level PRONUNCIATION_MAX_SCORES dict.
PronunciationScorer_score(max_scores, exam_level, data, task) ==
    LET max_score == LookupMaxScore(max_scores, exam_level, task)
        h == HnrBand(data.hnr_mean)
        j == JitterBand(data.jitter_local)
        s == ShimmerBand(data.shimmer_local)
        deductions == h.d + j.d + s.d
        issues == h.issues \o j.issues \o s.issues
        raw == ClampScore(max_score * (100 - deductions))
        level == determine_level(raw, max_score,
                                 <<max_score, deductions>> \in FloatBelowPct)
        rounded == IF raw % 100 = 50 /\ max_score = 50
                   THEN (raw \div 100)
                        + (IF <<h.d, j.d, s.d>> \in FloatAboveTie
                           THEN 1 ELSE 0)
                   ELSE RoundHalfEven(raw)
    IN  [score |-> rounded, max_score |-> max_score, level |-> level,
         issues |-> issues,
         feedback |-> PronunciationFeedback(level, issues)]

check_speech_rate(rate) ==
    IF rate < SPEECH_RATE_SLOW THEN <<"ISSUE_SPEECH_TOO_SLOW">>
    ELSE IF rate < SPEECH_RATE_IDEAL_MIN
         THEN <<"ISSUE_SPEECH_SLIGHTLY_SLOW">>
    ELSE IF rate > SPEECH_RATE_FAST THEN <<"ISSUE_SPEECH_TOO_FAST">>
    ELSE IF rate > SPEECH_RATE_IDEAL_MAX
         THEN <<"ISSUE_SPEECH_SLIGHTLY_FAST">>
    ELSE << >>

\* Variant: the pause count is compared without normalising it.
TooManyRawPauses(num_pauses, duration) ==
    num_pauses > NUM_PAUSES_THRESHOLD

\* normalized_pauses > num_pauses_threshold, with normalized_pauses =
\* (num_pauses / duration) * 30 if duration > 0 else num_pauses
TooManyNormalizedPauses(num_pauses, duration) ==
    IF duration > 0
    THEN num_pauses * FLUENCY_NORMALIZE_DURATION
            > NUM_PAUSES_THRESHOLD * duration
    ELSE num_pauses > NUM_PAUSES_THRESHOLD

check_pause_patterns(pause_ratio, mean_pause, num_pauses, duration) ==
    (IF pause_ratio > PAUSE_RATIO_ACCEPTABLE
     THEN <<"ISSUE_TOO_MANY_PAUSES">>
     ELSE IF mean_pause > MEAN_PAUSE_ACCEPTABLE
          THEN <<"ISSUE_PAUSES_TOO_LONG">>
     ELSE << >>)
    \o
    (IF TooManyNormalizedPauses(num_pauses, duration)
        /\ mean_pause < HESITATION_PAUSE_THRESHOLD
     THEN <<"ISSUE_HESITATION">>
     ELSE << >>)

FluencyFeedback(level, issues) ==
    CASE level = "excellent" -> <<"FEEDBACK_FLUENCY_EXCELLENT">>
      [] level = "good" ->
            <<"FEEDBACK_FLUENCY_GOOD_TEMPLATE">> \o Take(issues, 1)
      [] level = "acceptable" ->
            <<"FEEDBACK_FLUENCY_ACCEPTABLE_PREFIX">> \o Take(issues, 2)
      [] OTHER ->
            <<"FEEDBACK_FLUENCY_POOR_PREFIX", "FEEDBACK_FLUENCY_POOR_SUFFIX">>
            \o issues

\* Variant: every further issue takes another quarter off.
FluencyMultiplierLinear(n) ==
    IF n >= 4 THEN 0 ELSE 100 - 25 * n

\* The step function of FluencyScorer.score: issue count -> multiplier
FluencyMultiplier(n) ==
    IF n = 0 THEN SCORE_MULTIPLIER_EXCELLENT
    ELSE IF n = 1 THEN SCORE_MULTIPLIER_GOOD
    ELSE IF n = 2 THEN SCORE_MULTIPLIER_ACCEPTABLE
    ELSE SCORE_MULTIPLIER_POOR

\* FluencyScorer(exam_level).score(data, task), with self.max_scores the
\* module-level FLUENCY_MAX_SCORES dict.
FluencyScorer_score(max_scores, exam_level, data, task) ==
    LET max_score == LookupMaxScore(max_scores, exam_level, task)
        issues ==
            check_speech_rate(data.speech_rate)
            \o check_pause_patterns(data.pause_ratio,
                                    data.mean_pause_duration,
                                    data.num_pauses, data.duration)
            \o (IF Abs(data.articulation_rate - data.speech_rate)
                     > SPEED_STABILITY_THRESHOLD
                THEN <<"ISSUE_SPEED_UNSTABLE">> ELSE << >>)
        n == Len(issues)
        level == IF n = 0 THEN "excellent"
                 ELSE IF n = 1 THEN "good"
                 ELSE IF n = 2 THEN "acceptable" ELSE "poor"
    IN  [score |-> RoundHalfEven(max_score * FluencyMultiplier(n)),
         max_score |-> max_score, level |-> level, issues |-> issues,
         feedback |-> FluencyFeedback(level, issues)]

\* ------------------------------------------------------------------------
\* services/tri_core_service.py: unified_ai_scoring
\* ------------------------------------------------------------------------
EmptyDict == [x \in {} |-> 0]

\* dict.get(key, default)
Get(d, key, default) == IF key \in DOMAIN d THEN d[key] ELSE default

IsMalformed(entry) == "malformed" \in DOMAIN entry

\* CriteriaScore: score is Field(ge=0, le=100); a value outside raises
\* a ValidationError.
CriteriaScoreValid(score) == score >= 0 /\ score <= 10000

CriteriaScore(score, max_score, gpt_data) ==
    [score |-> score, max_score |-> max_score,
     feedback |-> Get(gpt_data, "feedback", << >>),
     issues |-> Get(gpt_data, "issues", << >>)]

PraatNames == <<"pronunciation", "fluency">>

\* Lines 524-531: the score and max_score unified_ai_scoring puts into the
\* CriteriaScore of a Praat criterion.
OriginalScore(pre, name, gpt_data) ==
    IF pre # EmptyDict /\ name \in DOMAIN pre
    THEN [score |-> pre[name].score, max_score |-> pre[name].max_score]
    ELSE [score |-> Get(gpt_data, "score", 0),
          max_score |-> Get(gpt_data, "max_score", 1000)]

\* Variant: the judge's score is taken as it is.
UnclampedJudged(score, max_score) == score

\* The clamp of line 546: min(criteria_data.get("score", 0), max_score)
ClampJudged(score, max_score) == Min2(score, max_score)

\* TriCoreScoringResult returned by the except branch (lines 555-559) and
\* by any exception raised while the response is parsed.
ErrorResult(why) ==
    [criteria |-> EmptyDict, overall_feedback |-> <<"Loi khi cham diem", why>>]

\* unified_ai_scoring from the point the judge call returns: jr is what the
\* call produced, ai_criteria_config the sequence of <<name, max_score>>,
\* pre the praat_scores argument (EmptyDict for None).
unified_ai_scoring(jr, ai_criteria_config, pre) ==
    IF jr.kind # "ok" THEN ErrorResult(jr.kind)
    ELSE
    LET result_dict == jr.result_dict
        aiNames == {ai_criteria_config[i][1] :
                        i \in 1..Len(ai_criteria_config)}
        aiMax(n) == (CHOOSE i \in 1..Len(ai_criteria_config) :
                        ai_criteria_config[i][1] = n)
        praatIn == {PraatNames[i] : i \in 1..Len(PraatNames)}
                        \cap DOMAIN result_dict
        aiIn == aiNames \cap DOMAIN result_dict
        orig(n) == OriginalScore(pre, n, result_dict[n])
        aiScore(n) ==
            ClampJudged(Get(result_dict[n], "score", 0),
                        ai_criteria_config[aiMax(n)][2])
        raises ==
            \/ \E n \in praatIn \cup aiIn : IsMalformed(result_dict[n])
            \/ \E n \in praatIn : ~CriteriaScoreValid(orig(n).score)
            \/ \E n \in aiIn : ~CriteriaScoreValid(aiScore(n))
    IN  IF raises THEN ErrorResult("exception")
        ELSE [criteria |->
                [n \in praatIn \cup aiIn |->
                    IF n \in praatIn
                    THEN CriteriaScore(orig(n).score, orig(n).max_score,
                                       result_dict[n])
                    ELSE CriteriaScore(aiScore(n),
                                       ai_criteria_config[aiMax(n)][2],
                                       result_dict[n])],
              overall_feedback |->
                Get(result_dict, "overall_feedback", << >>)]

\* ------------------------------------------------------------------------
\* api/v1/scoring.py: score_with_criteria
\* ------------------------------------------------------------------------
\* scoring_result_to_detail
ScoreDetail(score, max_score, level, issues, feedback) ==
    [score |-> score, max_score |-> max_score, level |-> level,
     issues |-> issues, feedback |-> feedback]

IsPraat(c) == c.source = "praat"
IsAI(c) == c.source = "ai"

\* Variant: the scorer's table is left as it is.
KeepTaskMax(max_scores, level, max_score) == max_scores

\* The write of lines 324 and 332: scorer.max_scores[level] = {"task": max}
SetTaskMax(max_scores, level, max_score) ==
    [l \in DOMAIN max_scores \cup {level} |->
        IF l = level THEN [t \in {"task"} |-> max_score] ELSE max_scores[l]]

\* Lines 316-348 for one criterion: st carries the two module-level tables
\* and the scores dict.  A Praat criterion that is neither pronunciation nor
\* fluency matches no branch and leaves everything as it is.
ScorePraatCriterion(st, c, level, data) ==
    IF c.type = "pronunciation"
    THEN LET tbl == SetTaskMax(st.pron, level, c.max_score)
             r == PronunciationScorer_score(tbl, level, data, "task")
         IN  [pron |-> tbl, flu |-> st.flu,
              scores |-> [n \in DOMAIN st.scores \cup {"pronunciation"} |->
                            IF n = "pronunciation"
                            THEN ScoreDetail(r.score, r.max_score, r.level,
                                             r.issues, r.feedback)
                            ELSE st.scores[n]]]
    ELSE IF c.type = "fluency"
    THEN LET tbl == SetTaskMax(st.flu, level, c.max_score)
             r == FluencyScorer_score(tbl, level, data, "task")
         IN  [pron |-> st.pron, flu |-> tbl,
              scores |-> [n \in DOMAIN st.scores \cup {"fluency"} |->
                            IF n = "fluency"
                            THEN ScoreDetail(r.score, r.max_score, r.level,
                                             r.issues, r.feedback)
                            ELSE st.scores[n]]]
    ELSE st

RECURSIVE ScorePraatCriteria(_, _, _, _)
ScorePraatCriteria(st, crits, level, data) ==
    IF crits = << >> THEN st
    ELSE ScorePraatCriteria(ScorePraatCriterion(st, Head(crits), level, data),
                            Tail(crits), level, data)

\* ai_criteria_config of lines 355-359, as a sequence of <<name, max_score>>
AiCriteriaConfig(cfg) ==
    LET ai == SelectSeq(cfg.criteria, IsAI)
    IN  [i \in 1..Len(ai) |-> <<ai[i].type, ai[i].max_score>>]

\* Variant: no pre-scores are handed to the judge.
NoPraatScoresForGpt(sc) == EmptyDict

\* praat_scores_for_gpt of lines 362-380
PraatScoresForGpt(sc) ==
    [n \in DOMAIN sc \cap {"pronunciation", "fluency"} |-> sc[n]]

\* The guard of line 351: if ai_criteria and whisper_variants and gemini_intent
\* (whisper_variants is the list of the three texts, gemini_intent the
\* Gemini text; an empty string is falsy).
JudgeIsCalled(cfg, stt_texts, gemini_intent) ==
    /\ SelectSeq(cfg.criteria, IsAI) # << >>
    /\ stt_texts # << >>
    /\ gemini_intent # "empty"

\* Lines 394-409: only feedback and issues are taken from the judge.
KeepOriginalScore(original, praat_result) ==
    ScoreDetail(original.score, original.max_score, original.level,
                IF praat_result.issues # << >> THEN praat_result.issues
                ELSE original.issues,
                IF praat_result.feedback # << >> THEN praat_result.feedback
                ELSE original.feedback)

\* Variant: a judged criterion the judge did not return gets full marks.
FullMarksPlaceholder(max_score, overall_feedback) ==
    ScoreDetail(max_score, max_score, "ai-scored", << >>, overall_feedback)

\* Lines 425-436: the placeholder of a judged criterion the judge did not
\* return.
NotScoredPlaceholder(max_score, overall_feedback) ==
    ScoreDetail(0, max_score, "error", <<"Khong co ket qua cham diem">>,
                IF overall_feedback # << >> THEN overall_feedback
                ELSE <<"Khong the cham diem">>)

\* Lines 438-450: the placeholder when unified_ai_scoring itself raises.
UnifiedErrorPlaceholder(max_score, why) ==
    ScoreDetail(0, max_score, "error", <<"Unified scoring error: ", why>>,
                <<"Khong the cham diem tieu chi nay">>)

\* Variant: for a Praat criterion the judge's own score and max_score win
\* over the pre-computed ones.
MergeJudgeScoreWins(sc, cfg, jr) ==
    LET aiCfg == AiCriteriaConfig(cfg)
        aiNames == {aiCfg[i][1] : i \in 1..Len(aiCfg)}
        maxOf(n) == aiCfg[CHOOSE i \in 1..Len(aiCfg) : aiCfg[i][1] = n][2]
    IN  IF jr.kind = "raise"
        THEN [n \in DOMAIN sc \cup aiNames |->
                IF n \in aiNames
                THEN UnifiedErrorPlaceholder(maxOf(n), jr.error)
                ELSE sc[n]]
        ELSE
        LET unified_result == unified_ai_scoring(jr, aiCfg, EmptyDict)
            got == DOMAIN unified_result.criteria
        IN  [n \in DOMAIN sc \cup aiNames |->
                IF n \in aiNames
                THEN IF n \in got
                     THEN ScoreDetail(unified_result.criteria[n].score,
                                      unified_result.criteria[n].max_score,
                                      "ai-scored",
                                      unified_result.criteria[n].issues,
                                      unified_result.criteria[n].feedback)
                     ELSE NotScoredPlaceholder(maxOf(n),
                                      unified_result.overall_feedback)
                ELSE IF n \in {"pronunciation", "fluency"} /\ n \in got
                     THEN ScoreDetail(unified_result.criteria[n].score,
                                      unified_result.criteria[n].max_score,
                                      sc[n].level,
                                      unified_result.criteria[n].issues,
                                      unified_result.criteria[n].feedback)
                     ELSE sc[n]]

\* Lines 394-450: merge what unified_ai_scoring returned into scores.
MergeUnifiedResult(sc, cfg, jr) ==
    LET aiCfg == AiCriteriaConfig(cfg)
        aiNames == {aiCfg[i][1] : i \in 1..Len(aiCfg)}
        maxOf(n) == aiCfg[CHOOSE i \in 1..Len(aiCfg) : aiCfg[i][1] = n][2]
    IN  IF jr.kind = "raise"
        THEN [n \in DOMAIN sc \cup aiNames |->
                IF n \in aiNames
                THEN UnifiedErrorPlaceholder(maxOf(n), jr.error)
                ELSE sc[n]]
        ELSE
        LET unified_result ==
                unified_ai_scoring(jr, aiCfg, PraatScoresForGpt(sc))
            got == DOMAIN unified_result.criteria
        IN  [n \in DOMAIN sc \cup aiNames |->
                IF n \in aiNames
                THEN IF n \in got
                     THEN ScoreDetail(unified_result.criteria[n].score,
                                      unified_result.criteria[n].max_score,
                                      "ai-scored",
                                      unified_result.criteria[n].issues,
                                      unified_result.criteria[n].feedback)
                     ELSE NotScoredPlaceholder(maxOf(n),
                                      unified_result.overall_feedback)
                ELSE IF n \in {"pronunciation", "fluency"} /\ n \in got
                     THEN KeepOriginalScore(sc[n], unified_result.criteria[n])
                     ELSE sc[n]]

\* ------------------------------------------------------------------------
\* What the external collaborators can hand back
\* ------------------------------------------------------------------------
\* transcribe_with_whisper: the text, an empty text, the "[Whisper Error: e]"
\* marker of the except branch, or an exception raised before the try
\* (the import and the AsyncOpenAI construction of lines 86-88).
WhisperOutcomes == {"text", "empty", "error_marker", "raise"}
\* transcribe_with_funasr: everything is inside its try; with
\* include_timestamps the dict can carry word timestamps.
FunasrOutcomes(include_timestamps) ==
    {"text", "error_marker"}
    \cup (IF include_timestamps THEN {"text_words"} ELSE {})
\* transcribe_with_gemini_stt: as Whisper; the import of line 250 is before
\* the try.
GeminiOutcomes == {"text", "empty", "error_marker", "raise"}
\* run_unified_praat_analysis: see UnifiedData and UnifiedLeftovers.
UnifiedOutcomes == {"preprocess_error", "nonzero_exit", "timeout",
                    "no_output", "bad_json", "ok", "ok_empty",
                    "ok_malformed"}
\* os.unlink(temp_audio_path); os.rmdir(temp_dir)
CleanupOutcomes == {"ok", "unlink_error", "rmdir_error"}
\* get_gpt_word_feedback returns a dict on both of its paths.
WordFeedbackOutcomes == {"feedback", "error_feedback"}

\* The task codes requests are made with; "NOPE" is not in the registry.
RequestTaskCodes == {"HSKKSC1", "HSKKSC3", "HSKKTC1", "NOPE"}

\* The text of funasr_result["text"] and the truthiness of its "words"
FunasrText(o) == IF o = "text_words" THEN "text" ELSE o
\* Variant: the word timestamps are taken to be there whatever FunASR
\* returned.
FunasrWordsAlways(o) == TRUE

FunasrWords(o) == o = "text_words"

\* What run_unified_praat_analysis returns: None, {} or the parsed data
\* ("intervals" is any non-empty object analyze_words can work on, its list
\* of intervals may be empty; "malformed" one it raises on)
UnifiedData(o) ==
    CASE o = "ok" -> "intervals"
      [] o = "ok_malformed" -> "malformed"
      [] o = "ok_empty" -> "empty"
      [] OTHER -> "None"

\* The entry the judge returns for a Praat criterion with pre-score p:
\* rewritten, with its own numbers, with an empty feedback, with a feedback
\* or issues value CriteriaScore rejects (null, a number, a string where a
\* list is expected), or as an empty object.
AcousticEntry(kind, p) ==
    CASE kind = "rewrite" ->
            [score |-> p.score, feedback |-> <<"GPT_FEEDBACK">>,
             issues |-> <<"GPT_ISSUE">>]
      [] kind = "tampered" ->
            [score |-> p.max_score + 100, max_score |-> p.max_score + 900,
             feedback |-> <<"GPT_FEEDBACK">>, issues |-> <<"GPT_ISSUE">>]
      [] kind = "blank" ->
            [score |-> p.score, feedback |-> << >>,
             issues |-> <<"GPT_ISSUE">>]
      [] kind = "malformed" -> [score |-> p.score, malformed |-> TRUE]
      [] OTHER -> EmptyDict

\* The entry the judge returns for a judged criterion of maximum m
JudgedEntry(kind, m) ==
    CASE kind = "normal" ->
            [score |-> m \div 2, feedback |-> <<"GPT_FEEDBACK">>,
             issues |-> << >>]
      [] kind = "over" ->
            [score |-> m + 100, feedback |-> <<"GPT_FEEDBACK">>,
             issues |-> << >>]
      [] kind = "negative" ->
            [score |-> 0 - 100, feedback |-> <<"GPT_FEEDBACK">>,
             issues |-> << >>]
      [] OTHER -> [malformed |-> TRUE]

AcousticPatterns ==
    { <<"rewrite", "rewrite">>, <<"tampered", "tampered">>,
      <<"absent", "absent">>, <<"empty", "empty">>,
      <<"tampered", "absent">>, <<"empty", "rewrite">>,
      <<"blank", "rewrite">>, <<"malformed", "rewrite">> }
JudgedKinds == {"normal", "absent", "over", "negative", "malformed"}

\* The JSON object of the judge: the Praat entries follow the pattern ap,
\* the judged criterion odd ("*" for all of them) has kind k and the others
\* are normal; ov tells whether overall_feedback is present.
ResultDict(cfg, sc, ap, odd, k, ov) ==
    LET aiCfg == AiCriteriaConfig(cfg)
        aiNames == {aiCfg[i][1] : i \in 1..Len(aiCfg)}
        maxOf(n) == aiCfg[CHOOSE i \in 1..Len(aiCfg) : aiCfg[i][1] = n][2]
        kindOf(n) == IF odd = "*" \/ n = odd THEN k ELSE "normal"
        dom == (IF ap[1] # "absent" THEN {"pronunciation"} ELSE {})
               \cup (IF ap[2] # "absent" THEN {"fluency"} ELSE {})
               \cup {n \in aiNames : kindOf(n) # "absent"}
               \cup (IF ov THEN {"overall_feedback"} ELSE {})
        pre(n) == IF n \in DOMAIN sc THEN sc[n]
                  ELSE [score |-> 0, max_score |-> 0]
    IN  [n \in dom |->
            IF n = "overall_feedback" THEN <<"GPT_OVERALL">>
            ELSE IF n = "pronunciation" THEN AcousticEntry(ap[1], pre(n))
            ELSE IF n = "fluency" THEN AcousticEntry(ap[2], pre(n))
            ELSE JudgedEntry(kindOf(n), maxOf(n))]

\* str(e) of what unified_ai_scoring raises before its try block: the import
\* of openai or the construction of the client.
RaisedErrors == {"No module named 'openai'", "cannot import name 'PROMPTS'"}

\* Everything the judge call of unified_ai_scoring can produce: an exception
\* before the try ("raise"), a failed call, a reply that is not JSON, or a
\* JSON object.  The JSON objects enumerated: every acoustic pattern with
\* all judged criteria normal, and every deviation of one judged criterion
\* (or of all of them) with the Praat entries rewritten or tampered with.
JudgeReplies(cfg, sc) ==
    LET aiNames == {AiCriteriaConfig(cfg)[i][1] :
                        i \in 1..Len(AiCriteriaConfig(cfg))}
    IN  { [kind |-> "raise", error |-> e] : e \in RaisedErrors }
        \cup
        { [kind |-> "network_error"], [kind |-> "bad_json"] }
        \cup
        { [kind |-> "ok",
           result_dict |-> ResultDict(cfg, sc, ap, "*", "normal", TRUE)] :
            ap \in AcousticPatterns }
        \cup
        { [kind |-> "ok",
           result_dict |-> ResultDict(cfg, sc, ap, odd, k, TRUE)] :
            ap \in {<<"rewrite", "rewrite">>, <<"tampered", "absent">>},
            odd \in aiNames \cup {"*"},
            k \in JudgedKinds \ {"normal"} }
        \cup
        { [kind |-> "ok",
           result_dict |-> ResultDict(cfg, sc, <<"rewrite", "rewrite">>,
                                      odd, "absent", FALSE)] :
            odd \in aiNames \cup {"*"} }

\* ------------------------------------------------------------------------
\* api/v1/scoring.py: full_score_audio
\* ------------------------------------------------------------------------
NoReq == [task_code |-> "", enable_word_analysis |-> FALSE]
IdleTasks == [whisper |-> "idle", funasr |-> "idle", gemini |-> "idle",
              praat |-> "idle", unified |-> "idle"]
ClosedTasks == [whisper |-> "closed", funasr |-> "closed",
                gemini |-> "closed", praat |-> "closed",
                unified |-> "closed"]
NoStt == [whisper |-> "None", fun_asr |-> "None", gemini |-> "None"]
NoFeatures == [status |-> "none"]
NoCalls == [judge |-> "none", word_feedback |-> "none"]
NoReply == [kind |-> "none"]
NoResponse == [kind |-> "none"]
NoSent == [stt_variants |-> << >>, gemini_intent |-> "None",
           transcribed_text |-> "None"]
NoOutput == [x \in {} |-> 0]

RECURSIVE SumOver(_, _, _)
SumOver(sc, names, field) ==
    IF names = {} THEN 0
    ELSE LET n == CHOOSE x \in names : TRUE
         IN  sc[n][field] + SumOver(sc, names \ {n}, field)

\* sum(s.score for s in scores.values()) of line 684, in 1e-4.  A score is
\* kept as whole hundredths; the score of a judged criterion is whatever
\* float the judge returned up to the criterion's max_score, and the part of
\* it below 0.01 is kept in the field "rest" (in 1e-4) where there is one.
RECURSIVE SumOfScores(_, _)
SumOfScores(sc, names) ==
    IF names = {} THEN 0
    ELSE LET n == CHOOSE x \in names : TRUE
         IN  100 * sc[n].score + Get(sc[n], "rest", 0)
                + SumOfScores(sc, names \ {n})

\* Lines 686 and 698: round((total_score / max_total * 100), 1) if
\* max_total > 0 else 0, in tenths of a percent; both arguments in 1e-4.
TotalPercentage(total_score, max_total) ==
    IF max_total > 0
    THEN LET q == (1000 * total_score) \div max_total
             r == (1000 * total_score) % max_total
         IN  IF 2 * r > max_total \/ (2 * r = max_total /\ q % 2 = 1)
             THEN q + 1 ELSE q
    ELSE 0

\* Lines 683-700
SuccessResponse(sc, sttResult, wordResult, wordFeedback) ==
    [kind |-> "FullScoreResponse", success |-> TRUE, stt |-> sttResult,
     scores |-> sc,
     word_analysis |-> wordResult # "None",
     word_feedback |-> wordFeedback,
     total_score |-> RoundHalfEven(SumOfScores(sc, DOMAIN sc)),
     max_total_score |->
        RoundHalfEven(100 * SumOver(sc, DOMAIN sc, "max_score")),
     total_percentage |->
        TotalPercentage(SumOfScores(sc, DOMAIN sc),
                        100 * SumOver(sc, DOMAIN sc, "max_score")),
     error_message |-> << >>]

\* Lines 593-600 (stt is set) and 702-716 (stt is left None)
FailedResponse(sttResult, error_message) ==
    [kind |-> "FullScoreResponse", success |-> FALSE, stt |-> sttResult,
     scores |-> EmptyDict, word_analysis |-> FALSE,
     word_feedback |-> "None", total_score |-> 0, max_total_score |-> 0,
     total_percentage |-> 0, error_message |-> error_message]

HTTPException(status_code) ==
    [kind |-> "HTTPException", status_code |-> status_code]

\* Lines 504-570: resolve the plan, check the key, write the audio copy into
\* a fresh temp directory and start the gathered coroutines.  Requests are
\* taken one at a time: the next one is taken when the handler has returned
\* and no coroutine of the previous request is still running.
StartRequest(task_code, enable_word_analysis) ==
    /\ pc \in {"idle", "done"}
    /\ orphans = {}
    /\ UNCHANGED <<orphans, praat_output>>
    /\ sent' = NoSent
    /\ req' = [task_code |-> task_code,
               enable_word_analysis |-> enable_word_analysis]
    /\ stt' = NoStt
    /\ features' = NoFeatures
    /\ word_result' = "None"
    /\ praat_scores' = EmptyDict
    /\ scores' = EmptyDict
    /\ calls' = NoCalls
    /\ judge_result' = NoReply
    /\ LET task_config == get_task_config(registry, task_code)
       IN  IF task_config = None
           THEN /\ resp' = HTTPException(400)
                /\ pc' = "done"
                /\ tasks' = IdleTasks
                /\ tempFiles' = {}
           ELSE IF has_ai_criteria(task_config) /\ ~settings.openai_api_key
           THEN /\ resp' = HTTPException(500)
                /\ pc' = "done"
                /\ tasks' = IdleTasks
                /\ tempFiles' = {}
           ELSE /\ resp' = NoResponse
                /\ pc' = "extracting"
                /\ tasks' = [whisper |-> "pending", funasr |-> "pending",
                             gemini |-> "pending", praat |-> "pending",
                             unified |-> IF enable_word_analysis
                                         THEN "pending" ELSE "idle"]
                /\ tempFiles' = {"temp_dir", "temp_audio"}
    /\ UNCHANGED <<settings, PRONUNCIATION_MAX_SCORES, FLUENCY_MAX_SCORES,
                   registry>>

Extracting == pc = "extracting"

\* transcribe_with_whisper finishes
WhisperDone(o) ==
    /\ UNCHANGED <<orphans, sent, praat_output>>
    /\ Extracting /\ tasks.whisper = "pending"
    /\ tasks' = [tasks EXCEPT !.whisper = o]
    /\ UNCHANGED <<settings, PRONUNCIATION_MAX_SCORES, FLUENCY_MAX_SCORES,
                   registry, pc, req, stt, features, word_result,
                   praat_scores, scores, calls, judge_result, tempFiles,
                   resp>>

\* transcribe_with_funasr finishes
FunasrDone(o) ==
    /\ UNCHANGED <<orphans, sent, praat_output>>
    /\ Extracting /\ tasks.funasr = "pending"
    /\ o \in FunasrOutcomes(req.enable_word_analysis)
    /\ tasks' = [tasks EXCEPT !.funasr = o]
    /\ UNCHANGED <<settings, PRONUNCIATION_MAX_SCORES, FLUENCY_MAX_SCORES,
                   registry, pc, req, stt, features, word_result,
                   praat_scores, scores, calls, judge_result, tempFiles,
                   resp>>

\* transcribe_with_gemini_stt finishes
GeminiDone(o) ==
    /\ UNCHANGED <<orphans, sent, praat_output>>
    /\ Extracting /\ tasks.gemini = "pending"
    /\ tasks' = [tasks EXCEPT !.gemini = o]
    /\ UNCHANGED <<settings, PRONUNCIATION_MAX_SCORES, FLUENCY_MAX_SCORES,
                   registry, pc, req, stt, features, word_result,
                   praat_scores, scores, calls, judge_result, tempFiles,
                   resp>>

\* assessment_service.extract_raw_features finishes: a RawFeaturesResponse
\* with success and the features, or with success=False.
extract_raw_features(o) ==
    /\ UNCHANGED <<orphans, sent, praat_output>>
    /\ Extracting /\ tasks.praat = "pending"
    /\ tasks' = [tasks EXCEPT !.praat = "done"]
    /\ features' = o
    /\ UNCHANGED <<settings, PRONUNCIATION_MAX_SCORES, FLUENCY_MAX_SCORES,
                   registry, pc, req, stt, word_result, praat_scores,
                   scores, calls, judge_result, tempFiles, resp>>

\* The files run_unified_praat_analysis leaves behind.  The raw temp input
\* is unlinked by its finally block on every path.  The preprocessed WAV is
\* unlinked on non-zero exit, missing output and success; the timeout and
\* JSON-error handlers return without unlinking; the JSON output is
\* unlinked only after it was parsed.
UnifiedLeftovers(o) ==
    CASE o = "timeout" -> {"unified_wav"}
      [] o = "bad_json" -> {"unified_wav", "unified_json"}
      [] OTHER -> {}

\* run_unified_praat_analysis runs (it has no await: one step)
run_unified_praat_analysis(o) ==
    /\ UNCHANGED <<orphans, sent, praat_output>>
    /\ Extracting /\ tasks.unified = "pending"
    /\ tasks' = [tasks EXCEPT !.unified = o]
    /\ tempFiles' = tempFiles \cup UnifiedLeftovers(o)
    /\ UNCHANGED <<settings, PRONUNCIATION_MAX_SCORES, FLUENCY_MAX_SCORES,
                   registry, pc, req, stt, features, word_result,
                   praat_scores, scores, calls, judge_result, resp>>

\* Lines 679-716 once scoring (and word feedback) are complete: clean up,
\* total, respond; an exception of the clean-up goes to the except branch.
Finish(sc, sttResult, wordResult, wordFeedback) ==
    \E co \in CleanupOutcomes :
        /\ pc' = "done"
        /\ tempFiles' = CASE co = "ok" -> tempFiles \ {"temp_audio", "temp_dir"}
                          [] co = "rmdir_error" -> tempFiles \ {"temp_audio"}
                          [] OTHER -> tempFiles
        /\ resp' = IF co = "ok"
                   THEN SuccessResponse(sc, sttResult, wordResult,
                                        wordFeedback)
                   ELSE FailedResponse(NoStt, <<"exception", co>>)

\* Variant: the gather returns as soon as one coroutine has returned.
Raised == {t \in {"whisper", "gemini"} : tasks[t] = "raise"}
GatherReturnsOnFirst ==
    \E t \in DOMAIN tasks : tasks[t] \notin {"pending", "idle"}

\* asyncio.gather returns when every coroutine has returned, or raises as
\* soon as one of them raises (the others are left running and their
\* results are dropped).
GatherReturns ==
    \/ Raised # {}
    \/ \A t \in DOMAIN tasks : tasks[t] \notin {"pending"}

\* The transcription coroutines and the extraction that have not returned
\* when the gather raises: nothing cancels them.  run_unified_praat_analysis
\* has no await, so it is never among them.
LeftRunning ==
    {t \in {"whisper", "funasr", "gemini", "praat"} : tasks[t] = "pending"}

\* A coroutine the gather left behind returns; its result is dropped.
OrphanDone(t) ==
    /\ t \in orphans
    /\ orphans' = orphans \ {t}
    /\ UNCHANGED <<settings, PRONUNCIATION_MAX_SCORES, FLUENCY_MAX_SCORES,
                   registry, pc, req, tasks, stt, features, word_result,
                   praat_scores, scores, calls, judge_result, tempFiles,
                   resp, sent, praat_output>>

\* Lines 572-677 up to the next await: unpack, check the Praat result, run
\* the word analysis, start score_with_criteria (Praat criteria, then the
\* judge call) and the word-feedback call.
AfterGather ==
    /\ Extracting /\ GatherReturns
    /\ UNCHANGED praat_output
    /\ tasks' = ClosedTasks
    /\ UNCHANGED <<settings, registry, req, features, judge_result>>
    /\ LET task_config == get_task_config(registry, req.task_code)
           sttResult == [whisper |-> tasks.whisper,
                         fun_asr |-> FunasrText(tasks.funasr),
                         gemini |-> tasks.gemini]
           stt_texts == <<sttResult.whisper, sttResult.fun_asr,
                          sttResult.gemini>>
           unified == IF req.enable_word_analysis
                      THEN UnifiedData(tasks.unified) ELSE "None"
           analyse == /\ req.enable_word_analysis
                      /\ unified \in {"intervals", "malformed"}
                      /\ FunasrWords(tasks.funasr)
           st == ScorePraatCriteria(
                    [pron |-> PRONUNCIATION_MAX_SCORES,
                     flu |-> FLUENCY_MAX_SCORES, scores |-> EmptyDict],
                    SelectSeq(task_config.criteria, IsPraat),
                    task_config.level_name, features.data)
           judged == JudgeIsCalled(task_config, stt_texts, sttResult.gemini)
       IN  IF Raised # {}
           THEN \* except branch of line 702
                /\ resp' = FailedResponse(NoStt, <<"exception", "stt">>)
                /\ pc' = "done"
                /\ orphans' = LeftRunning
                /\ UNCHANGED sent
                /\ UNCHANGED <<PRONUNCIATION_MAX_SCORES, FLUENCY_MAX_SCORES,
                               stt, word_result, praat_scores, scores,
                               calls, tempFiles>>
           ELSE IF features.status # "ok"
           THEN \* lines 593-600
                /\ resp' = FailedResponse(sttResult, <<"praat">>)
                /\ pc' = "done"
                /\ UNCHANGED <<orphans, sent, praat_output>>
                /\ stt' = sttResult
                /\ UNCHANGED <<PRONUNCIATION_MAX_SCORES, FLUENCY_MAX_SCORES,
                               word_result, praat_scores, scores, calls,
                               tempFiles>>
           ELSE IF analyse /\ unified = "malformed"
           THEN \* analyze_words raises: except branch of line 702
                /\ resp' = FailedResponse(NoStt,
                                          <<"exception", "analyze_words">>)
                /\ pc' = "done"
                /\ UNCHANGED <<orphans, sent, praat_output>>
                /\ stt' = sttResult
                /\ UNCHANGED <<PRONUNCIATION_MAX_SCORES, FLUENCY_MAX_SCORES,
                               word_result, praat_scores, scores, calls,
                               tempFiles>>
           ELSE /\ stt' = sttResult
                /\ UNCHANGED orphans
                /\ sent' = [stt_variants |-> IF judged THEN stt_texts
                                             ELSE << >>,
                            gemini_intent |-> IF judged THEN sttResult.gemini
                                              ELSE "None",
                            transcribed_text |-> sttResult.whisper]
                /\ word_result' = IF analyse THEN "present" ELSE "None"
                /\ PRONUNCIATION_MAX_SCORES' = st.pron
                /\ FLUENCY_MAX_SCORES' = st.flu
                /\ praat_scores' = PraatScoresForGpt(st.scores)
                /\ scores' = st.scores
                /\ calls' = [judge |-> IF judged THEN "pending"
                                       ELSE "skipped",
                             word_feedback |-> IF analyse THEN "pending"
                                               ELSE "none"]
                /\ IF judged \/ analyse
                   THEN /\ pc' = "judging"
                        /\ UNCHANGED <<resp, tempFiles>>
                   ELSE Finish(st.scores, sttResult, "None", "None")

\* The judge call of unified_ai_scoring returns: parse it, merge it into
\* scores (lines 394-450); if the word-feedback call is not outstanding the
\* handler goes on to clean up and respond.
JudgeDone ==
    /\ UNCHANGED <<orphans, sent, praat_output>>
    /\ pc = "judging" /\ calls.judge = "pending"
    /\ \E jr \in JudgeReplies(get_task_config(registry, req.task_code),
                              scores) :
        /\ judge_result' = jr
        /\ scores' = MergeUnifiedResult(
                        scores, get_task_config(registry, req.task_code), jr)
        /\ calls' = [calls EXCEPT !.judge = "returned"]
        /\ IF calls.word_feedback = "pending"
           THEN UNCHANGED <<pc, resp, tempFiles>>
           ELSE Finish(scores', stt, word_result,
                       IF calls.word_feedback = "none" THEN "None"
                       ELSE calls.word_feedback)
    /\ UNCHANGED <<settings, PRONUNCIATION_MAX_SCORES, FLUENCY_MAX_SCORES,
                   registry, req, tasks, stt, features, word_result,
                   praat_scores>>

\* get_gpt_word_feedback returns; if score_with_criteria is complete the
\* handler goes on to clean up and respond.
WordFeedbackDone(o) ==
    /\ UNCHANGED <<orphans, sent, praat_output>>
    /\ pc = "judging" /\ calls.word_feedback = "pending"
    /\ calls' = [calls EXCEPT !.word_feedback = o]
    /\ IF calls.judge = "pending"
       THEN UNCHANGED <<pc, resp, tempFiles>>
       ELSE Finish(scores, stt, word_result, o)
    /\ UNCHANGED <<settings, PRONUNCIATION_MAX_SCORES, FLUENCY_MAX_SCORES,
                   registry, req, tasks, stt, features, word_result,
                   praat_scores, scores, judge_result>>

\* ------------------------------------------------------------------------
\* Specification
\* ------------------------------------------------------------------------
Init ==
    /\ settings \in {[openai_api_key |-> TRUE], [openai_api_key |-> FALSE]}
    /\ PRONUNCIATION_MAX_SCORES = InitPronunciationMaxScores
    /\ FLUENCY_MAX_SCORES = InitFluencyMaxScores
    /\ registry = TASK_CONFIGS
    /\ pc = "idle"
    /\ req = NoReq
    /\ tasks = IdleTasks
    /\ stt = NoStt
    /\ features = NoFeatures
    /\ word_result = "None"
    /\ praat_scores = EmptyDict
    /\ scores = EmptyDict
    /\ calls = NoCalls
    /\ judge_result = NoReply
    /\ tempFiles = {}
    /\ resp = NoResponse
    /\ orphans = {}
    /\ sent = NoSent
    /\ praat_output = NoOutput

Next ==
    \/ \E tc \in RequestTaskCodes \cup (DOMAIN registry \ TaskCode),
           wa \in BOOLEAN : StartRequest(tc, wa)
    \/ \E o \in WhisperOutcomes : WhisperDone(o)
    \/ \E o \in FunasrOutcomes(TRUE) : FunasrDone(o)
    \/ \E o \in GeminiOutcomes : GeminiDone(o)
    \/ \E o \in {[status |-> "failed"]}
               \cup {[status |-> "ok", data |-> fv] : fv \in FeatureVectors} :
           extract_raw_features(o)
    \/ \E o \in UnifiedOutcomes : run_unified_praat_analysis(o)
    \/ AfterGather
    \/ JudgeDone
    \/ \E o \in WordFeedbackOutcomes : WordFeedbackDone(o)
    \/ \E t \in {"whisper", "funasr", "gemini", "praat"} : OrphanDone(t)

Spec == Init /\ [][Next]_vars

\* Every external call eventually returns, fails or times out, and the event
\* loop eventually resumes a coroutine that can go on.
Fairness ==
    /\ WF_vars(\E o \in WhisperOutcomes : WhisperDone(o))
    /\ WF_vars(\E o \in FunasrOutcomes(TRUE) : FunasrDone(o))
    /\ WF_vars(\E o \in GeminiOutcomes : GeminiDone(o))
    /\ WF_vars(\E o \in {[status |-> "failed"]}
                   \cup {[status |-> "ok", data |-> fv] :
                            fv \in FeatureVectors} :
                  extract_raw_features(o))
    /\ WF_vars(\E o \in UnifiedOutcomes : run_unified_praat_analysis(o))
    /\ WF_vars(AfterGather)
    /\ WF_vars(JudgeDone)
    /\ WF_vars(\E o \in WordFeedbackOutcomes : WordFeedbackDone(o))
    /\ WF_vars(\E t \in {"whisper", "funasr", "gemini", "praat"} :
                  OrphanDone(t))

SpecLive == Init /\ [][Next]_vars /\ Fairness

\* The registry with one more plan that has judged criteria only.  TaskConfig
\* accepts any list of criteria; none of the nine registered plans is of
\* this shape, so this specification shows how the handler treats such a
\* plan, not what the registered plans do.
JUDGED_ONLY_CONFIG == TaskConfig("JUDGEDONLY", "101", "beginner", 10, 150, 1500,
    << CriteriaConfig("task_achievement", "ai", 100),
       CriteriaConfig("grammar", "ai", 50) >>)

InitJudgedOnly ==
    /\ settings = [openai_api_key |-> TRUE]
    /\ PRONUNCIATION_MAX_SCORES = InitPronunciationMaxScores
    /\ FLUENCY_MAX_SCORES = InitFluencyMaxScores
    /\ registry = [c \in TaskCode \cup {"JUDGEDONLY"} |->
                     IF c = "JUDGEDONLY" THEN JUDGED_ONLY_CONFIG
                     ELSE TASK_CONFIGS[c]]
    /\ pc = "idle"
    /\ req = NoReq
    /\ tasks = IdleTasks
    /\ stt = NoStt
    /\ features = NoFeatures
    /\ word_result = "None"
    /\ praat_scores = EmptyDict
    /\ scores = EmptyDict
    /\ calls = NoCalls
    /\ judge_result = NoReply
    /\ tempFiles = {}
    /\ resp = NoResponse
    /\ orphans = {}
    /\ sent = NoSent
    /\ praat_output = NoOutput

SpecJudgedOnly == InitJudgedOnly /\ [][Next]_vars

\* The registry with two more plans: one with no criteria and one with a
\* Praat-sourced criterion that is neither pronunciation nor fluency.
\* TaskConfig and CriteriaConfig are plain dataclasses and TASK_CONFIGS a
\* dict literal: nothing checks a plan when the registry is built.  None of
\* the nine registered plans is of these shapes, so this specification shows
\* how such a plan is treated, not what the registered plans do.
NO_CRITERIA_CONFIG == TaskConfig("NOCRITERIA", "101", "beginner", 1, 0, 0, << >>)

PRAAT_GRAMMAR_CONFIG == TaskConfig("PRAATGRAMMAR", "101", "beginner", 10, 100, 1000,
    << CriteriaConfig("pronunciation", "praat", 50),
       CriteriaConfig("grammar", "praat", 50) >>)

InitMalformed ==
    /\ settings = [openai_api_key |-> TRUE]
    /\ PRONUNCIATION_MAX_SCORES = InitPronunciationMaxScores
    /\ FLUENCY_MAX_SCORES = InitFluencyMaxScores
    /\ registry = [c \in TaskCode \cup {"NOCRITERIA", "PRAATGRAMMAR"} |->
                     CASE c = "NOCRITERIA" -> NO_CRITERIA_CONFIG
                       [] c = "PRAATGRAMMAR" -> PRAAT_GRAMMAR_CONFIG
                       [] OTHER -> TASK_CONFIGS[c]]
    /\ pc = "idle"
    /\ req = NoReq
    /\ tasks = IdleTasks
    /\ stt = NoStt
    /\ features = NoFeatures
    /\ word_result = "None"
    /\ praat_scores = EmptyDict
    /\ scores = EmptyDict
    /\ calls = NoCalls
    /\ judge_result = NoReply
    /\ tempFiles = {}
    /\ resp = NoResponse
    /\ orphans = {}
    /\ sent = NoSent
    /\ praat_output = NoOutput

SpecMalformed == InitMalformed /\ [][Next]_vars

\* PronunciationScorer.score as a function of its inputs: the feature values
\* on, next to and between the band thresholds of each measure.
HnrValues == {22, 20, 19, 17, 15, 14, 10, 9, 0}
JitterValues == {8, 10, 11, 15, 16, 20, 21}
ShimmerValues == {4, 5, 6, 8, 9, 12, 13}

BandVectors ==
    {[FV_CLEAR EXCEPT !.hnr_mean = h, !.jitter_local = j,
                      !.shimmer_local = s] :
        h \in HnrValues, j \in JitterValues, s \in ShimmerValues}

\* FluencyScorer.score as a function of its inputs: speech rates on and next
\* to the band thresholds, pause ratios and mean pause durations around
\* their thresholds, <<num_pauses, duration>> pairs of equal and of
\* different pauses-per-second ratio (and duration 0), and articulation
\* rates at, and just beyond, the stability threshold from the speech rate.
SpeechRateValues == {90, 100, 149, 150, 220, 221, 280, 281}
PauseRatioValues == {10, 25, 26, 40}
MeanPauseValues == {2, 5, 6, 7}
PauseCounts == {<<3, 30>>, <<10, 30>>, <<11, 30>>, <<20, 60>>, <<22, 60>>,
                <<4, 10>>, <<10, 0>>, <<11, 0>>}
ArticulationOffsets == {0, 50, 51}

FluencyVectors ==
    {[FV_CLEAR EXCEPT !.speech_rate = r, !.pause_ratio = p,
                      !.mean_pause_duration = mp, !.num_pauses = np[1],
                      !.duration = np[2], !.articulation_rate = r + off] :
        r \in SpeechRateValues, p \in PauseRatioValues,
        mp \in MeanPauseValues, np \in PauseCounts,
        off \in ArticulationOffsets}

InitScorer ==
    /\ settings = [openai_api_key |-> TRUE]
    /\ PRONUNCIATION_MAX_SCORES = InitPronunciationMaxScores
    /\ FLUENCY_MAX_SCORES = InitFluencyMaxScores
    /\ registry = TASK_CONFIGS
    /\ pc = "idle"
    /\ req = NoReq
    /\ tasks = IdleTasks
    /\ stt = NoStt
    /\ features \in {[status |-> "ok", data |-> fv] :
                        fv \in BandVectors \cup FluencyVectors}
    /\ word_result = "None"
    /\ praat_scores = EmptyDict
    /\ scores = EmptyDict
    /\ calls = NoCalls
    /\ judge_result = NoReply
    /\ tempFiles = {}
    /\ resp = NoResponse
    /\ orphans = {}
    /\ sent = NoSent
    /\ praat_output = NoOutput

\* PronunciationScorer(exam_level).score(data, task) is called on the
\* features; its ScoringResult is kept in scores.
ScorePronunciation(exam_level, task) ==
    /\ pc = "idle" /\ scores = EmptyDict
    /\ LET r == PronunciationScorer_score(PRONUNCIATION_MAX_SCORES,
                                          exam_level, features.data, task)
       IN  scores' = [n \in {"pronunciation"} |->
                        ScoreDetail(r.score, r.max_score, r.level, r.issues,
                                    r.feedback)]
    /\ UNCHANGED <<settings, PRONUNCIATION_MAX_SCORES, FLUENCY_MAX_SCORES,
                   registry, pc, req, tasks, stt, features, word_result,
                   praat_scores, calls, judge_result, tempFiles, resp,
                   orphans, sent, praat_output>>

\* FluencyScorer(exam_level).score(data, task) is called on the features;
\* its ScoringResult is kept in scores.
ScoreFluency(exam_level, task) ==
    /\ pc = "idle" /\ scores = EmptyDict
    /\ LET r == FluencyScorer_score(FLUENCY_MAX_SCORES, exam_level,
                                    features.data, task)
       IN  scores' = [n \in {"fluency"} |->
                        ScoreDetail(r.score, r.max_score, r.level, r.issues,
                                    r.feedback)]
    /\ UNCHANGED <<settings, PRONUNCIATION_MAX_SCORES, FLUENCY_MAX_SCORES,
                   registry, pc, req, tasks, stt, features, word_result,
                   praat_scores, calls, judge_result, tempFiles, resp,
                   orphans, sent, praat_output>>

NextScorer ==
    \/ \E exam_level \in DOMAIN InitPronunciationMaxScores,
          task \in {"task1", "task2", "task3", "task"} :
            ScorePronunciation(exam_level, task)
    \/ \E exam_level \in DOMAIN InitFluencyMaxScores,
          task \in {"task1", "task2", "task3", "task"} :
            ScoreFluency(exam_level, task)

SpecScorer == InitScorer /\ [][NextScorer]_vars

\* ------------------------------------------------------------------------
\* services/praat_service.py: PraatService._parse_features_file
\* ------------------------------------------------------------------------
\* The value of one "key,value" line of the output file: the key has no
\* line ("absent"), the value is one of the strings 'undefined',
\* '--undefined--', 'nan', 'inf', '-inf' ("undefined"), it is not a float
\* literal ("garbage"), or it is a number.
Absent == [kind |-> "absent"]
Undefined == [kind |-> "undefined"]
Garbage == [kind |-> "garbage"]
Num(v) == [kind |-> "num", v |-> v]

\* The output files: the lines of duration, hnr_mean, pause_ratio and
\* speech_duration vary, no other key has a line.
PraatOutputs ==
    [duration : {Absent, Undefined, Num(-3), Num(30)},
     hnr_mean : {Absent, Undefined, Garbage, Num(-5), Num(22), Num(45)},
     pause_ratio : {Absent, Undefined, Num(-10), Num(40), Num(150)},
     speech_duration : {Absent, Undefined, Num(-1), Num(20), Num(50)}]

\* Lines 125-143: features_dict; an undefined value and a value that float()
\* rejects are both stored as 0.0.
ParseLines(output) ==
    [k \in {x \in DOMAIN output : output[x].kind # "absent"} |->
        IF output[k].kind = "num" THEN output[k].v ELSE 0]

\* min_val=None and max_val=None of safe_get: no clamp on that side (the
\* values are beyond every number of the model).
NoMin == -1000000
NoMax == 1000000

\* Lines 148-154
safe_get(features_dict, key, default, min_val, max_val) ==
    Min2(max_val, Max2(min_val, Get(features_dict, key, default)))

\* Lines 112-220: the fields the scorers read, and speech_duration.
parse_features_file(output) ==
    LET features_dict == ParseLines(output)
        duration == safe_get(features_dict, "duration", 0, 0, NoMax)
    IN  [duration |-> duration,
         hnr_mean |-> safe_get(features_dict, "hnr_mean", 20, 0, 40),
         jitter_local |-> safe_get(features_dict, "jitter_local", 10, 0, 100),
         shimmer_local |->
            safe_get(features_dict, "shimmer_local", 10, 0, 100),
         speech_rate |-> safe_get(features_dict, "speech_rate", 180, 0, NoMax),
         articulation_rate |->
            safe_get(features_dict, "articulation_rate", 200, 0, NoMax),
         speech_duration |->
            safe_get(features_dict, "speech_duration", duration, 0, duration),
         pause_ratio |-> safe_get(features_dict, "pause_ratio", 10, 0, 100),
         num_pauses |-> safe_get(features_dict, "num_pauses", 0, 0, NoMax),
         mean_pause_duration |->
            safe_get(features_dict, "mean_pause_duration", 0, 0, NoMax)]

InitParser ==
    /\ settings = [openai_api_key |-> TRUE]
    /\ PRONUNCIATION_MAX_SCORES = InitPronunciationMaxScores
    /\ FLUENCY_MAX_SCORES = InitFluencyMaxScores
    /\ registry = TASK_CONFIGS
    /\ pc = "idle"
    /\ req = NoReq
    /\ tasks = IdleTasks
    /\ stt = NoStt
    /\ features = NoFeatures
    /\ word_result = "None"
    /\ praat_scores = EmptyDict
    /\ scores = EmptyDict
    /\ calls = NoCalls
    /\ judge_result = NoReply
    /\ tempFiles = {}
    /\ resp = NoResponse
    /\ orphans = {}
    /\ sent = NoSent
    /\ praat_output \in PraatOutputs

\* PraatService.extract_features hands the output file to
\* _parse_features_file and returns its AudioFeatures.
ParseFeaturesFile ==
    /\ features = NoFeatures
    /\ features' = [status |-> "ok", data |-> parse_features_file(praat_output)]
    /\ UNCHANGED <<settings, PRONUNCIATION_MAX_SCORES, FLUENCY_MAX_SCORES,
                   registry, pc, req, tasks, stt, word_result, praat_scores,
                   scores, calls, judge_result, tempFiles, resp, orphans,
                   sent, praat_output>>

NextParser == ParseFeaturesFile

SpecParser == InitParser /\ [][NextParser]_vars


\* ------------------------------------------------------------------------
\* services/tri_core_service.py: unified_ai_scoring on its own
\* ------------------------------------------------------------------------
\* The praat_scores arguments a caller can pass for the scores sc of a
\* plan: None (kept as EmptyDict), the pre-score of pronunciation alone, or
\* the pre-scores of all the Praat criteria.
PraatScoresArguments(sc) ==
    {EmptyDict, PraatScoresForGpt(sc)}
    \cup (IF "pronunciation" \in DOMAIN sc
          THEN {[n \in {"pronunciation"} |-> sc[n]]} ELSE {})

InitDispatcher ==
    /\ settings = [openai_api_key |-> TRUE]
    /\ PRONUNCIATION_MAX_SCORES = InitPronunciationMaxScores
    /\ FLUENCY_MAX_SCORES = InitFluencyMaxScores
    /\ registry = TASK_CONFIGS
    /\ pc = "idle"
    /\ req \in {[task_code |-> tc, enable_word_analysis |-> FALSE] :
                    tc \in {"HSKKSC1", "HSKKSC3"}}
    /\ tasks = IdleTasks
    /\ stt = NoStt
    /\ features \in {[status |-> "ok", data |-> fv] : fv \in FeatureVectors}
    /\ word_result = "None"
    /\ praat_scores \in
        LET cfg == get_task_config(registry, req.task_code)
        IN  PraatScoresArguments(
                ScorePraatCriteria(
                    [pron |-> PRONUNCIATION_MAX_SCORES,
                     flu |-> FLUENCY_MAX_SCORES, scores |-> EmptyDict],
                    SelectSeq(cfg.criteria, IsPraat), cfg.level_name,
                    features.data).scores)
    /\ scores = EmptyDict
    /\ calls = NoCalls
    /\ judge_result \in
        {jr \in JudgeReplies(get_task_config(registry, req.task_code),
                             praat_scores) : jr.kind # "raise"}
    /\ tempFiles = {}
    /\ resp = NoResponse
    /\ orphans = {}
    /\ sent = NoSent
    /\ praat_output = NoOutput

\* unified_ai_scoring is called with the plan's judged criteria and the
\* praat_scores argument, the judge call produces judge_result; the criteria
\* set in the TriCoreScoringResult it returns are kept in scores.
UnifiedAiScoring ==
    /\ pc = "idle"
    /\ pc' = "done"
    /\ scores' = unified_ai_scoring(
                    judge_result,
                    AiCriteriaConfig(get_task_config(registry,
                                                     req.task_code)),
                    praat_scores).criteria
    /\ UNCHANGED <<settings, PRONUNCIATION_MAX_SCORES, FLUENCY_MAX_SCORES,
                   registry, req, tasks, stt, features, word_result,
                   praat_scores, calls, judge_result, tempFiles, resp,
                   orphans, sent, praat_output>>

NextDispatcher == UnifiedAiScoring

SpecDispatcher == InitDispatcher /\ [][NextDispatcher]_vars


\* ------------------------------------------------------------------------
\* api/v1/scoring.py: requests handled concurrently on one event loop
\* ------------------------------------------------------------------------
\* The task codes of the requests handled next to the one followed here.
OtherTaskCodes == {"HSKKSC1", "HSKKSC2", "HSKKSC3", "HSKKTC1"}

\* Another request's handler runs the Praat loop of score_with_criteria
\* (lines 316-348) between two steps of this one: all it shares with this
\* request are the two module-level tables.  The loop has no await, so it
\* runs as one step.
OtherRequestScores(task_code) ==
    /\ LET task_config == get_task_config(registry, task_code)
           st == ScorePraatCriteria(
                    [pron |-> PRONUNCIATION_MAX_SCORES,
                     flu |-> FLUENCY_MAX_SCORES, scores |-> EmptyDict],
                    SelectSeq(task_config.criteria, IsPraat),
                    task_config.level_name, FV_MIXED)
       IN  /\ PRONUNCIATION_MAX_SCORES' = st.pron
           /\ FLUENCY_MAX_SCORES' = st.flu
    /\ UNCHANGED <<settings, registry, pc, req, tasks, stt, features,
                   word_result, praat_scores, scores, calls, judge_result,
                   tempFiles, resp, orphans, sent, praat_output>>

\* The handler's steps for requests without word analysis, interleaved with
\* the scoring steps of other requests.
NextConcurrent ==
    \/ \E tc \in {"HSKKSC1", "HSKKSC3", "HSKKTC1"} : StartRequest(tc, FALSE)
    \/ \E o \in {"text", "raise"} : WhisperDone(o)
    \/ \E o \in {"text"} : FunasrDone(o)
    \/ \E o \in {"text", "empty"} : GeminiDone(o)
    \/ \E o \in {[status |-> "failed"]}
               \cup {[status |-> "ok", data |-> fv] : fv \in FeatureVectors} :
           extract_raw_features(o)
    \/ AfterGather
    \/ JudgeDone
    \/ \E t \in {"whisper", "funasr", "gemini", "praat"} : OrphanDone(t)
    \/ \E tc \in OtherTaskCodes : OtherRequestScores(tc)

SpecConcurrent == Init /\ [][NextConcurrent]_vars


\* ------------------------------------------------------------------------
\* api/v1/scoring.py: the totals of full_score_audio on their own
\* ------------------------------------------------------------------------
\* The part of a judged score below 0.01, in 1e-4.
JudgedRests == {33, 67}

\* The ScoreDetail records score_with_criteria can hand back for a judged
\* criterion of maximum m: the judge's score is any number from 0 to m.
JudgedDetails(m) ==
    { ScoreDetail(0, m, "ai-scored", << >>, <<"GPT_FEEDBACK">>),
      ScoreDetail(m \div 2, m, "ai-scored", << >>, <<"GPT_FEEDBACK">>),
      ScoreDetail(m, m, "ai-scored", << >>, <<"GPT_FEEDBACK">>) }
    \cup
    { [score |-> m \div 2, rest |-> r, max_score |-> m,
       level |-> "ai-scored", issues |-> << >>,
       feedback |-> <<"GPT_FEEDBACK">>] : r \in JudgedRests }

\* The scores dicts score_with_criteria can hand back for a plan and a
\* feature vector.
ScoresOfPlan(cfg, data) ==
    LET aiCfg == AiCriteriaConfig(cfg)
        aiNames == {aiCfg[i][1] : i \in 1..Len(aiCfg)}
        maxOf(n) == aiCfg[CHOOSE i \in 1..Len(aiCfg) : aiCfg[i][1] = n][2]
        praat == ScorePraatCriteria(
                    [pron |-> InitPronunciationMaxScores,
                     flu |-> InitFluencyMaxScores, scores |-> EmptyDict],
                    SelectSeq(cfg.criteria, IsPraat), cfg.level_name,
                    data).scores
        judged == {f \in [aiNames -> UNION {JudgedDetails(maxOf(n)) :
                                                n \in aiNames}] :
                        \A n \in aiNames : f[n] \in JudgedDetails(maxOf(n))}
    IN  { [n \in DOMAIN praat \cup aiNames |->
                IF n \in aiNames THEN f[n] ELSE praat[n]] : f \in judged }

\* The plans of the totals: two of the registry, and one without criteria
\* (nothing rejects it), for which scores is empty.
InitTotals ==
    /\ settings = [openai_api_key |-> TRUE]
    /\ PRONUNCIATION_MAX_SCORES = InitPronunciationMaxScores
    /\ FLUENCY_MAX_SCORES = InitFluencyMaxScores
    /\ registry = TASK_CONFIGS
    /\ pc = "judging"
    /\ req = NoReq
    /\ tasks = ClosedTasks
    /\ stt = [whisper |-> "text", fun_asr |-> "text", gemini |-> "text"]
    /\ features \in {[status |-> "ok", data |-> fv] : fv \in FeatureVectors}
    /\ word_result = "None"
    /\ praat_scores = EmptyDict
    /\ scores \in {EmptyDict}
                  \cup ScoresOfPlan(HSKKSC1_CONFIG, features.data)
                  \cup ScoresOfPlan(HSKKSC2_CONFIG, features.data)
    /\ calls = [judge |-> "returned", word_feedback |-> "none"]
    /\ judge_result = NoReply
    /\ tempFiles = {"temp_dir", "temp_audio"}
    /\ resp = NoResponse
    /\ orphans = {}
    /\ sent = NoSent
    /\ praat_output = NoOutput

\* Lines 679-716 with the scores score_with_criteria returned: clean up,
\* total, respond.
RespondWithTotals ==
    /\ pc = "judging"
    /\ Finish(scores, stt, word_result, "None")
    /\ UNCHANGED <<settings, PRONUNCIATION_MAX_SCORES, FLUENCY_MAX_SCORES,
                   registry, req, tasks, stt, features, word_result,
                   praat_scores, scores, calls, judge_result, orphans, sent,
                   praat_output>>

NextTotals == RespondWithTotals

SpecTotals == InitTotals /\ [][NextTotals]_vars


\* ------------------------------------------------------------------------
\* Properties
\* ------------------------------------------------------------------------
\* C1: whatever the judge returns for an acoustic criterion (a tampered
\* score, a tampered max_score, no entry, an empty entry), the score,
\* max_score and level of pronunciation and fluency in scores and in the
\* response are the ones the deterministic scorer computed before the judge
\* was called.
C1_AcousticScoreImmutable ==
    \A n \in DOMAIN praat_scores :
        /\ n \in DOMAIN scores
        /\ scores[n].score = praat_scores[n].score
        /\ scores[n].max_score = praat_scores[n].max_score
        /\ scores[n].level = praat_scores[n].level
        /\ (pc = "done" /\ resp.kind = "FullScoreResponse" /\ resp.success)
            => LET level == get_task_config(registry,
                                            req.task_code).level_name
                   r == IF n = "pronunciation"
                        THEN PronunciationScorer_score(
                                PRONUNCIATION_MAX_SCORES, level,
                                features.data, "task")
                        ELSE FluencyScorer_score(
                                FLUENCY_MAX_SCORES, level,
                                features.data, "task")
               IN  /\ n \in DOMAIN resp.scores
                   /\ resp.scores[n].score = r.score
                   /\ resp.scores[n].max_score = r.max_score
                   /\ resp.scores[n].level = r.level
                   /\ resp.scores[n].score = praat_scores[n].score
                   /\ resp.scores[n].max_score = praat_scores[n].max_score

\* A successful response whose judge tampered with the pronunciation score
\* and max_score and returned no fluency entry; the judge's feedback was
\* taken over.
C1_Witness ==
    /\ pc = "done" /\ resp.kind = "FullScoreResponse" /\ resp.success
    /\ judge_result.kind = "ok"
    /\ "pronunciation" \in DOMAIN judge_result.result_dict
    /\ "fluency" \notin DOMAIN judge_result.result_dict
    /\ "score" \in DOMAIN judge_result.result_dict.pronunciation
    /\ judge_result.result_dict.pronunciation.score
            # praat_scores.pronunciation.score
    /\ judge_result.result_dict.pronunciation.max_score
            # praat_scores.pronunciation.max_score
    /\ resp.scores.pronunciation.score = praat_scores.pronunciation.score
    /\ resp.scores.pronunciation.feedback = <<"GPT_FEEDBACK">>

C3_AlwaysThreeTexts ==
    tasks = ClosedTasks
    => \A b \in DOMAIN stt : stt[b] # "None"

\* C4 as stated: a response with success=false is returned only when
\* acoustic extraction failed and the plan has an acoustic criterion (an
\* unknown task id never reaches a FullScoreResponse).
C4_FailedOnlyOnAcousticFailure ==
    (pc = "done" /\ resp.kind = "FullScoreResponse" /\ ~resp.success)
    => /\ features.status = "failed"
       /\ has_praat_criteria(get_task_config(registry, req.task_code))

C6_EveryPlanCriterionScored ==
    (pc = "done" /\ resp.kind = "FullScoreResponse" /\ resp.success)
    => LET cfg == get_task_config(registry, req.task_code)
           idx == 1..Len(cfg.criteria)
           planMax == [i \in idx |-> [max_score |-> cfg.criteria[i].max_score]]
       IN  /\ DOMAIN resp.scores = {cfg.criteria[i].type : i \in idx}
           /\ resp.max_total_score = SumOver(planMax, idx, "max_score")

\* C7: every criterion result has 0 <= score <= max_score: in scores, in
\* the response, and for both scorers on every feature vector, level and
\* task under the tables as each request leaves them.
C7_ScoreWithinBounds ==
    /\ \A n \in DOMAIN scores :
            0 <= scores[n].score /\ scores[n].score <= scores[n].max_score
    /\ resp.kind = "FullScoreResponse"
       => /\ \A n \in DOMAIN resp.scores :
                /\ 0 <= resp.scores[n].score
                /\ resp.scores[n].score <= resp.scores[n].max_score
          /\ 0 <= resp.total_score
          /\ resp.total_score <= resp.max_total_score
    /\ pc = "done"
       => \A l \in DOMAIN PRONUNCIATION_MAX_SCORES,
             t \in {"task1", "task2", "task3", "task"},
             fv \in FeatureVectors :
            LET p == PronunciationScorer_score(PRONUNCIATION_MAX_SCORES,
                                               l, fv, t)
                f == FluencyScorer_score(FLUENCY_MAX_SCORES, l, fv, t)
            IN  /\ 0 <= p.score /\ p.score <= p.max_score
                /\ 0 <= f.score /\ f.score <= f.max_score

\* A successful response where the judge scored a criterion above its
\* maximum (the result is the maximum) and the out-of-range feature vector
\* brought pronunciation to 0.
C7_Witness ==
    /\ pc = "done" /\ resp.kind = "FullScoreResponse" /\ resp.success
    /\ judge_result.kind = "ok"
    /\ "task_achievement" \in DOMAIN judge_result.result_dict
    /\ "score" \in DOMAIN judge_result.result_dict.task_achievement
    /\ judge_result.result_dict.task_achievement.score
            > resp.scores.task_achievement.max_score
    /\ resp.scores.task_achievement.score
            = resp.scores.task_achievement.max_score
    /\ features.data = FV_NOISY
    /\ resp.scores.pronunciation.score = 0

\* C8 as stated: for every (exam_level, task, feature_vector) both scorers
\* return what they returned at start-up, however many requests were
\* processed in between.
C8_ScorerResultsNeverChange ==
    \A l \in DOMAIN InitPronunciationMaxScores,
       t \in {"task1", "task2", "task3"},
       fv \in FeatureVectors :
        /\ PronunciationScorer_score(PRONUNCIATION_MAX_SCORES, l, fv, t)
            = PronunciationScorer_score(InitPronunciationMaxScores, l, fv, t)
        /\ FluencyScorer_score(FLUENCY_MAX_SCORES, l, fv, t)
            = FluencyScorer_score(InitFluencyMaxScores, l, fv, t)

C10_NoTempFileLeft ==
    pc = "done" => tempFiles = {}

\* C11: within one request the judge is called at most once; when the call
\* is outstanding or has returned, extraction has succeeded, all three
\* transcription backends have returned, the judge was given their three
\* texts, and the pre-scores it was given are the scorers' results for
\* exactly the acoustic criteria of the plan.  The call is issued only in the
\* step in which the gather returns with no coroutine pending.
C11_JudgeOnceAfterExtraction ==
    /\ [](calls.judge \in {"pending", "returned"}
          => LET cfg == get_task_config(registry, req.task_code)
                 praat == SelectSeq(cfg.criteria, IsPraat)
             IN  /\ features.status = "ok"
                 /\ \A t \in DOMAIN tasks : tasks[t] # "pending"
                 /\ \A b \in DOMAIN stt : stt[b] # "None"
                 /\ sent.stt_variants = <<stt.whisper, stt.fun_asr, stt.gemini>>
                 /\ DOMAIN praat_scores
                        = {praat[i].type : i \in 1..Len(praat)}
                 /\ \A n \in DOMAIN praat_scores :
                        LET r == IF n = "pronunciation"
                                 THEN PronunciationScorer_score(
                                        PRONUNCIATION_MAX_SCORES,
                                        cfg.level_name, features.data, "task")
                                 ELSE FluencyScorer_score(
                                        FLUENCY_MAX_SCORES,
                                        cfg.level_name, features.data, "task")
                        IN  praat_scores[n]
                                = ScoreDetail(r.score, r.max_score, r.level,
                                              r.issues, r.feedback))
    /\ [][(calls'.judge = "pending" /\ calls.judge # "pending")
          => /\ calls.judge = "none"
             /\ pc = "extracting"
             /\ Raised = {}
             /\ \A t \in DOMAIN tasks : tasks[t] # "pending"]_vars
    /\ [][(calls.judge \in {"returned", "skipped"})
          => (calls'.judge = calls.judge
              \/ (calls'.judge = "none" /\ pc = "done"))]_vars

\* The judge call is outstanding after the Whisper backend failed and the
\* extraction returned the mixed feature vector.
C11_Witness ==
    /\ pc = "judging" /\ calls.judge = "pending"
    /\ stt.whisper = "error_marker"
    /\ features.data = FV_MIXED
    /\ "pronunciation" \in DOMAIN praat_scores
    /\ "fluency" \in DOMAIN praat_scores

C13_TerminatesOnceAndStops ==
    /\ (pc \in {"extracting", "judging"})
            ~> (pc = "done" /\ resp.kind # "none")
    /\ [][/\ pc = "idle" => pc' \in {"extracting", "done"}
          /\ pc = "extracting" => pc' \in {"extracting", "judging", "done"}
          /\ pc = "judging" => pc' \in {"judging", "done"}
          /\ pc' = "judging" => resp' = NoResponse
          /\ (pc = "done" /\ pc' = "done" /\ req' = req) => resp' = resp]_vars
    /\ [][pc = "done"
          => \E tc \in RequestTaskCodes, wa \in BOOLEAN :
                StartRequest(tc, wa)]_vars

C15_LevelIsTierOfRatio ==
    (pc = "done" /\ resp.kind = "FullScoreResponse" /\ resp.success)
    => \A n \in DOMAIN resp.scores :
          resp.scores[n].level # "error"
          => resp.scores[n].level
                = determine_level(100 * resp.scores[n].score,
                                  resp.scores[n].max_score, FALSE)

\* C16 as stated: after any sequence of requests the criteria registry and
\* the per-level pronunciation and fluency max-score tables have the content
\* they had at start-up.
C16_ProcessStateUnchanged ==
    /\ registry = TASK_CONFIGS
    /\ PRONUNCIATION_MAX_SCORES = InitPronunciationMaxScores
    /\ FLUENCY_MAX_SCORES = InitFluencyMaxScores

C18_ErrorMarkerNeverUsed ==
    /\ \A i \in 1..Len(sent.stt_variants) :
            sent.stt_variants[i] # "error_marker"
    /\ sent.gemini_intent # "error_marker"
    /\ sent.transcribed_text # "error_marker"

\* C19 as stated: when the judge's reply carries a score for each judged
\* criterion it returns, every such criterion is scored, not turned into an
\* error, and its score is the judge's score clamped into [0, max_score]:
\* an out-of-range score of one criterion leaves the others as returned.
C19_OutOfRangeClampedPerCriterion ==
    (/\ calls.judge = "returned"
     /\ judge_result.kind = "ok"
     /\ \A n \in DOMAIN judge_result.result_dict \ {"overall_feedback"} :
            ~IsMalformed(judge_result.result_dict[n]))
    => LET aiCfg == AiCriteriaConfig(get_task_config(registry,
                                                     req.task_code))
       IN  \A i \in 1..Len(aiCfg) :
              aiCfg[i][1] \in DOMAIN judge_result.result_dict
              => /\ scores[aiCfg[i][1]].level # "error"
                 /\ scores[aiCfg[i][1]].score
                      = Max2(0, Min2(
                          judge_result.result_dict[aiCfg[i][1]].score,
                          aiCfg[i][2]))

\* C20 as stated: the pronunciation score is max_score * (1 - min(1, D)),
\* where D is the sum of the deductions of HNR, jitter and shimmer and each
\* of them is 0 or one of 0.15, 0.25, 0.35, 0.5; and hnr >= 20,
\* jitter <= 0.01 and shimmer <= 0.05 give the full score, level excellent
\* and no issues.
C20_ScoreIsTieredDeduction ==
    "pronunciation" \in DOMAIN scores
    => LET r == scores.pronunciation
           h == HnrBand(features.data.hnr_mean).d
           j == JitterBand(features.data.jitter_local).d
           s == ShimmerBand(features.data.shimmer_local).d
       IN  /\ {h, j, s} \subseteq {0, 15, 25, 35, 50}
           /\ 100 * r.score = r.max_score * (100 - Min2(100, h + j + s))
           /\ (/\ features.data.hnr_mean >= 20
               /\ features.data.jitter_local <= 10
               /\ features.data.shimmer_local <= 5)
              => (r.score = r.max_score /\ r.level = "excellent"
                  /\ r.issues = << >>)

\* C20 amended: the pronunciation score is max_score * (1 - min(1, D))
\* rounded to two decimals, where D is the sum of: for HNR 0 (>= 20),
\* 0.15 (>= 15), 0.30 (>= 10) or 0.5 (below 10); for jitter 0 (<= 0.010),
\* 0.15 (<= 0.015), 0.25 (<= 0.020) or 0.35 (above); for shimmer 0
\* (<= 0.05), 0.15 (<= 0.08), 0.25 (<= 0.12) or 0.35 (above); and
\* hnr >= 20, jitter <= 0.01 and shimmer <= 0.05 give the full score,
\* level excellent and no issues.
C20_ScoreIsRoundedDeduction ==
    "pronunciation" \in DOMAIN scores
    => LET r == scores.pronunciation
           d == features.data
           h == IF d.hnr_mean >= 20 THEN 0
                ELSE IF d.hnr_mean >= 15 THEN 15
                ELSE IF d.hnr_mean >= 10 THEN 30 ELSE 50
           j == IF d.jitter_local <= 10 THEN 0
                ELSE IF d.jitter_local <= 15 THEN 15
                ELSE IF d.jitter_local <= 20 THEN 25 ELSE 35
           s == IF d.shimmer_local <= 5 THEN 0
                ELSE IF d.shimmer_local <= 8 THEN 15
                ELSE IF d.shimmer_local <= 12 THEN 25 ELSE 35
           exact == r.max_score * (100 - Min2(100, h + j + s))
       IN  /\ Abs(100 * r.score - exact) <= 50
           /\ (d.hnr_mean >= 20 /\ d.jitter_local <= 10
               /\ d.shimmer_local <= 5)
              => (r.score = r.max_score /\ r.level = "excellent"
                  /\ r.issues = << >>)

\* The scorer was applied, with max_score 10.0, to a vector with every
\* measure in its worst band: D = 1.2 and the score is 0.
C20_Witness ==
    /\ "pronunciation" \in DOMAIN scores
    /\ features.data.hnr_mean < 10
    /\ features.data.jitter_local > 20
    /\ features.data.shimmer_local > 12
    /\ scores.pronunciation.score = 0
    /\ scores.pronunciation.max_score = 1000

\* C21 as stated: each measure that is not in its excellent band appends one
\* issue: issues is empty exactly when the three measures are excellent, and
\* the number of issues is the number of measures below excellent.
C21_IssuePerNonExcellentBand ==
    "pronunciation" \in DOMAIN scores
    => LET d == features.data
           below == (IF d.hnr_mean >= 20 THEN 0 ELSE 1)
                    + (IF d.jitter_local <= 10 THEN 0 ELSE 1)
                    + (IF d.shimmer_local <= 5 THEN 0 ELSE 1)
       IN  /\ (scores.pronunciation.issues = << >>) <=> (below = 0)
           /\ Len(scores.pronunciation.issues) = below

\* C21 amended: each measure appends one issue in its two lowest bands and
\* none in its excellent band or in the band next to it (hnr >= 15,
\* jitter <= 0.015, shimmer <= 0.08): issues is empty exactly when every
\* measure is in one of its two best bands, and the number of issues is the
\* number of measures in their two lowest bands.
C21_IssuePerLowBand ==
    "pronunciation" \in DOMAIN scores
    => LET d == features.data
           low == (IF d.hnr_mean >= 15 THEN 0 ELSE 1)
                  + (IF d.jitter_local <= 15 THEN 0 ELSE 1)
                  + (IF d.shimmer_local <= 8 THEN 0 ELSE 1)
       IN  /\ (scores.pronunciation.issues = << >>) <=> (low = 0)
           /\ Len(scores.pronunciation.issues) = low

\* The scorer was applied to a vector with HNR in the band next to
\* excellent, jitter in its third band and shimmer excellent: one issue.
C21_Witness ==
    /\ "pronunciation" \in DOMAIN scores
    /\ features.data.hnr_mean = 17
    /\ features.data.jitter_local = 20
    /\ features.data.shimmer_local = 4
    /\ scores.pronunciation.issues = <<"ISSUE_HIGH_JITTER">>

\* C22 as stated: the fluency score is max_score times 100%, 75%, 50% or 25%
\* for 0, 1, 2 and 3 or more issues; the issues are one for the speech-rate
\* band, one for the pause pattern, one for hesitation and one for rate
\* instability; speech_rate below 100 with pause_ratio above 0.35 and
\* nothing else gives two issues and half of max_score.
C22_ScoreIsStepOfIssueCount ==
    "fluency" \in DOMAIN scores
    => LET r == scores.fluency
           d == features.data
           n == Len(r.issues)
           step == IF n = 0 THEN 100 ELSE IF n = 1 THEN 75
                   ELSE IF n = 2 THEN 50 ELSE 25
           hesitation ==
               /\ d.mean_pause_duration < 5
               /\ IF d.duration > 0
                  THEN d.num_pauses * 30 > 10 * d.duration
                  ELSE d.num_pauses > 10
           unstable == Abs(d.articulation_rate - d.speech_rate) > 50
       IN  /\ 100 * r.score = r.max_score * step
           /\ (d.speech_rate < 100 /\ d.pause_ratio > 35
               /\ ~hesitation /\ ~unstable)
              => (n = 2 /\ 2 * r.score = r.max_score)

\* C22 amended: the fluency score is max_score times 100%, 75%, 50% or 25%
\* for 0, 1, 2 and 3 or more issues, rounded to two decimals; the issues are
\* one for a speech rate outside 150..220, one for the pause pattern
\* (pause_ratio above 0.25, else mean pause above 0.6 s), one for hesitation
\* (more than 10 pauses per 30 s with a mean pause below 0.5 s) and one for
\* rate instability (articulation rate more than 50 from the speech rate);
\* speech_rate below 100 with pause_ratio above 0.35 and nothing else gives
\* two issues and half of max_score.
C22_ScoreIsRoundedStep ==
    "fluency" \in DOMAIN scores
    => LET r == scores.fluency
           d == features.data
           hesitation ==
               /\ d.mean_pause_duration < 5
               /\ IF d.duration > 0
                  THEN d.num_pauses * 30 > 10 * d.duration
                  ELSE d.num_pauses > 10
           unstable == Abs(d.articulation_rate - d.speech_rate) > 50
           n == (IF d.speech_rate < 150 \/ d.speech_rate > 220
                 THEN 1 ELSE 0)
                + (IF d.pause_ratio > 25 \/ d.mean_pause_duration > 6
                   THEN 1 ELSE 0)
                + (IF hesitation THEN 1 ELSE 0)
                + (IF unstable THEN 1 ELSE 0)
           step == IF n = 0 THEN 100 ELSE IF n = 1 THEN 75
                   ELSE IF n = 2 THEN 50 ELSE 25
       IN  /\ Len(r.issues) = n
           /\ Abs(100 * r.score - r.max_score * step) <= 50
           /\ (d.speech_rate < 100 /\ d.pause_ratio > 35
               /\ ~hesitation /\ ~unstable)
              => (n = 2 /\ 2 * r.score = r.max_score)

\* The scorer was applied to the example (speech rate 90, pause ratio 0.40,
\* nothing else) with max_score 10.0: two issues and the score 5.0.
C22_Witness ==
    /\ "fluency" \in DOMAIN scores
    /\ features.data.speech_rate = 90
    /\ features.data.pause_ratio = 40
    /\ features.data.articulation_rate = 90
    /\ features.data.num_pauses = 3
    /\ scores.fluency.issues
        = <<"ISSUE_SPEECH_TOO_SLOW", "ISSUE_TOO_MANY_PAUSES">>
    /\ scores.fluency.max_score = 1000
    /\ scores.fluency.score = 500

\* C23: the pause count is compared against its threshold after it was
\* normalised to 30 seconds: every recording with the same
\* num_pauses / duration ratio (both durations positive) and the same other
\* measures gets, for the same max_score, the issues and the score of the
\* recording that was scored; with duration <= 0 hesitation is reported
\* exactly when the raw count is above the threshold (and the mean pause is
\* short).
C23_PauseCountNormalised ==
    "fluency" \in DOMAIN scores
    => LET d == features.data
       IN  /\ d.duration > 0
              => \A np \in PauseCounts,
                    l \in DOMAIN FLUENCY_MAX_SCORES,
                    t \in {"task1", "task2", "task3", "task"} :
                    LET fv == [d EXCEPT !.num_pauses = np[1],
                                        !.duration = np[2]]
                        r == FluencyScorer_score(FLUENCY_MAX_SCORES, l,
                                                 fv, t)
                    IN  (/\ fv.duration > 0
                         /\ fv.num_pauses * d.duration
                              = d.num_pauses * fv.duration
                         /\ r.max_score = scores.fluency.max_score)
                        => (/\ r.issues = scores.fluency.issues
                            /\ r.score = scores.fluency.score)
           /\ d.duration <= 0
              => (("ISSUE_HESITATION" \in
                      {scores.fluency.issues[i] :
                          i \in 1..Len(scores.fluency.issues)})
                  <=> (d.num_pauses > 10 /\ d.mean_pause_duration < 5))

\* The scorer was applied to a recording of 60 s with 20 short pauses: as
\* for 10 pauses in 30 s, no hesitation is reported although the raw count
\* is above the threshold.
C23_Witness ==
    /\ "fluency" \in DOMAIN scores
    /\ features.data.num_pauses = 20 /\ features.data.duration = 60
    /\ features.data.mean_pause_duration = 2
    /\ features.data.speech_rate = 150
    /\ features.data.pause_ratio = 10
    /\ features.data.articulation_rate = 150
    /\ scores.fluency.issues = << >>

\* C24 as stated: after the output file was parsed every field holds a
\* number; a field whose line is absent or whose value is undefined holds
\* the default of the field (duration 0, hnr_mean 20, pause_ratio 0.1,
\* speech_duration the duration); and pause_ratio is in [0, 1], hnr_mean in
\* [0, 40] and speech_duration in [0, duration].
C24_DefaultsAndRanges ==
    (features.status = "ok" /\ praat_output # NoOutput)
    => LET d == features.data
           noValue(k) == praat_output[k].kind \in {"absent", "undefined"}
       IN  /\ \A k \in DOMAIN d : d[k] \in Int
           /\ noValue("duration") => d.duration = 0
           /\ noValue("hnr_mean") => d.hnr_mean = 20
           /\ noValue("pause_ratio") => d.pause_ratio = 10
           /\ noValue("speech_duration") => d.speech_duration = d.duration
           /\ d.pause_ratio >= 0 /\ d.pause_ratio <= 100
           /\ d.hnr_mean >= 0 /\ d.hnr_mean <= 40
           /\ d.speech_duration >= 0 /\ d.speech_duration <= d.duration

\* C25: when the judge's reply has been parsed as JSON and the judge left
\* out the entry of an acoustic criterion, or returned it with an empty or
\* malformed feedback or issues field, the criterion keeps its deterministic
\* feedback (and issues) for that field, the request does not fail because
\* of it, and, the judged entries being well-formed, every judged criterion
\* the judge scored within its range keeps that score.
C25_CorruptAcousticEntryFallsBack ==
    (calls.judge = "returned" /\ judge_result.kind = "ok")
    => LET rd == judge_result.result_dict
           cfg == get_task_config(registry, req.task_code)
           aiCfg == AiCriteriaConfig(cfg)
           bad(n) == \/ n \notin DOMAIN rd
                     \/ "malformed" \in DOMAIN rd[n]
           noField(n, f) ==
               \/ bad(n)
               \/ f \notin DOMAIN rd[n]
               \/ (f \in DOMAIN rd[n] /\ rd[n][f] = << >>)
           corrupt == \E n \in DOMAIN praat_scores :
                          noField(n, "feedback") \/ noField(n, "issues")
           judgedSound ==
               \A i \in 1..Len(aiCfg) :
                   aiCfg[i][1] \in DOMAIN rd
                   => /\ "score" \in DOMAIN rd[aiCfg[i][1]]
                      /\ rd[aiCfg[i][1]].score >= 0
       IN  /\ \A n \in DOMAIN praat_scores :
                /\ noField(n, "feedback")
                    => scores[n].feedback = praat_scores[n].feedback
                /\ noField(n, "issues")
                    => scores[n].issues = praat_scores[n].issues
           /\ (corrupt /\ pc = "done")
                => \/ resp.success
                   \/ resp.error_message \in
                        {<<"exception", "unlink_error">>,
                         <<"exception", "rmdir_error">>}
           /\ (corrupt /\ judgedSound)
                => \A i \in 1..Len(aiCfg) :
                     LET n == aiCfg[i][1]
                     IN  (n \in DOMAIN rd /\ rd[n].score <= aiCfg[i][2])
                         => scores[n].score = rd[n].score

C27_NoJudgeScoreForAcoustic ==
    pc = "done"
    => \A n \in {"pronunciation", "fluency"} \cap DOMAIN scores :
            /\ n \in DOMAIN praat_scores
            /\ scores[n].score = praat_scores[n].score
            /\ scores[n].max_score = praat_scores[n].max_score

\* C28: however the scoring steps of other requests, of the same exam level
\* or another, fall between the steps of a request, the max_score of each
\* acoustic criterion in its scores and in its response is the max_score of
\* that criterion in the request's own task plan.
C28_OwnPlanMaxScore ==
    LET cfg == get_task_config_or_default(registry, req.task_code)
        planMax(n) ==
            cfg.criteria[CHOOSE i \in 1..Len(cfg.criteria) :
                            cfg.criteria[i].type = n].max_score
    IN  /\ \A n \in DOMAIN scores \cap {"pronunciation", "fluency"} :
                scores[n].max_score = planMax(n)
        /\ (pc = "done" /\ resp.kind = "FullScoreResponse")
            => \A n \in DOMAIN resp.scores
                            \cap {"pronunciation", "fluency"} :
                    resp.scores[n].max_score = planMax(n)

\* C28 witness: a request has scored pronunciation with its plan's maximum,
\* and by the time it responds another request has left a different maximum
\* for the same level in the shared table.
C28_Witness ==
    /\ pc = "done" /\ resp.kind = "FullScoreResponse" /\ resp.success
    /\ "pronunciation" \in DOMAIN resp.scores
    /\ LET level == get_task_config_or_default(registry,
                                               req.task_code).level_name
       IN  LookupMaxScore(PRONUNCIATION_MAX_SCORES, level, "task")
                # resp.scores["pronunciation"].max_score

\* C29 (as stated): a response with success=false has no scores and zero
\* total_score, max_total_score and total_percentage; in a response with
\* success=true total_score is the sum of the per-criterion scores,
\* max_total_score the sum of the per-criterion max_scores, total_score lies
\* between 0 and max_total_score, and total_percentage is 0 when
\* max_total_score is 0.
C29_TotalsAreSums ==
    resp.kind = "FullScoreResponse"
    => IF ~resp.success
       THEN /\ resp.scores = EmptyDict
            /\ resp.total_score = 0
            /\ resp.max_total_score = 0
            /\ resp.total_percentage = 0
       ELSE /\ 100 * resp.total_score
                    = SumOfScores(resp.scores, DOMAIN resp.scores)
            /\ resp.max_total_score
                    = SumOver(resp.scores, DOMAIN resp.scores, "max_score")
            /\ 0 <= resp.total_score
            /\ resp.total_score <= resp.max_total_score
            /\ resp.max_total_score = 0 => resp.total_percentage = 0

\* C29 (amended): as above, with total_score the sum of the per-criterion
\* scores rounded to two decimals: it differs from the sum by at most 0.005.
C29_TotalsAreRoundedSums ==
    resp.kind = "FullScoreResponse"
    => IF ~resp.success
       THEN /\ resp.scores = EmptyDict
            /\ resp.total_score = 0
            /\ resp.max_total_score = 0
            /\ resp.total_percentage = 0
       ELSE /\ 100 * resp.total_score
                    - SumOfScores(resp.scores, DOMAIN resp.scores) <= 50
            /\ SumOfScores(resp.scores, DOMAIN resp.scores)
                    - 100 * resp.total_score <= 50
            /\ resp.max_total_score
                    = SumOver(resp.scores, DOMAIN resp.scores, "max_score")
            /\ 0 <= resp.total_score
            /\ resp.total_score <= resp.max_total_score
            /\ resp.max_total_score = 0 => resp.total_percentage = 0

\* C29 witness: a successful response whose per-criterion scores do not add
\* up to a whole number of hundredths.
C29_Witness ==
    /\ resp.kind = "FullScoreResponse" /\ resp.success
    /\ resp.total_score > 0
    /\ SumOfScores(resp.scores, DOMAIN resp.scores) % 100 # 0

\* C30: every plan of the registry has at least one criterion, no criterion
\* type twice, only pronunciation and fluency from Praat and only
\* task_achievement, grammar, vocabulary and coherence from the judge, every
\* max_score positive, the max_scores adding up to points_per_question, and
\* question_count times points_per_question equal to total_points; its key
\* in the registry is its task_code.
C30_RegistryPlansWellFormed ==
    \A k \in DOMAIN registry :
        LET plan == registry[k]
            n == Len(plan.criteria)
        IN  /\ n >= 1
            /\ \A i, j \in 1..n :
                    plan.criteria[i].type = plan.criteria[j].type => i = j
            /\ \A i \in 1..n :
                    /\ plan.criteria[i].source = "praat"
                        => plan.criteria[i].type
                                \in {"pronunciation", "fluency"}
                    /\ plan.criteria[i].source = "ai"
                        => plan.criteria[i].type
                                \in {"task_achievement", "grammar",
                                     "vocabulary", "coherence"}
                    /\ plan.criteria[i].source \in DataSource
                    /\ plan.criteria[i].max_score > 0
            /\ SumMaxScores(plan.criteria) = plan.points_per_question
            /\ plan.question_count * plan.points_per_question
                    = plan.total_points
            /\ plan.task_code = k

\* C30 witness: a request for a plan of the registry has been answered with
\* a max_total_score equal to the plan's points_per_question.
C30_Witness ==
    /\ pc = "done" /\ resp.kind = "FullScoreResponse" /\ resp.success
    /\ req.task_code \in DOMAIN registry
    /\ resp.max_total_score = registry[req.task_code].points_per_question
    /\ resp.max_total_score
            = SumMaxScores(registry[req.task_code].criteria)

====
